---- MODULE Spec2Model ----
(***************************************************************************)
(* A model of the workshop-agents BS detector: the workflow graphs of      *)
(* bs_detector/modules (m1_baseline, m2_langgraph, m4_tools, m5_routing,   *)
(* m6_human_in_loop, m6_human_in_loop_simple), their nodes, their routing  *)
(* predicates and the entry points that run them.                          *)
(*                                                                         *)
(* Each graph has its own group of variables and its own specification;    *)
(* a specification leaves the other groups idle.                           *)
(*                                                                         *)
(* Optional values: a missing string is NoStr, a missing integer NoInt.    *)
(* A dict is a record whose field "present" tells None from a dict.        *)
(***************************************************************************)
EXTENDS Integers, Sequences, FiniteSets, TLC

NoStr == "None"
NoInt == 0 - 999

\* --------------------------------------------------------------- variables

\* The baseline graph of m2_langgraph.py and the direct check of m1_baseline.py.
VARIABLES
    entry,        \* the entry point called: "check_claim" or "check_claim_with_graph"
    state,        \* the BSDetectorState of the run
    node,         \* the node the engine executes next, "END", "returned" or "raised"
    ret,          \* the dict the entry point returned (NoDict before it returns)
    hist          \* what the run did so far (counters, see HistInit)

\* The search-capable graph of m4_tools.py.
VARIABLES
    tstate,       \* its BSDetectorState
    tnode,        \* the node executed next, "END" or "raised"
    thist         \* what the run did so far

\* The multi-agent graphs of m5_routing.py, m6_human_in_loop_simple.py and
\* m6_human_in_loop.py, which share their nodes and extend one state schema.
VARIABLES
    agraph,       \* the graph that runs: "routing", "review", "hitl" or "idle"
    astate,       \* the state of the run (the fields of all three schemas)
    anode,        \* the node executed next, or where the entry point stands
    aret,         \* what the entry point returned
    ahist,        \* what the run did so far
    savers        \* the MemorySaver of each compiled app: thread_id -> checkpoint

\* The process-wide memory of m7_memory.py and the calls that write it.
VARIABLES
    MEMORY_STORE, \* the module's dict: "claims", "entities", "patterns"
    store_calls   \* each caller of store_claim: where it stands, its locals

bvars == <<entry, state, node, ret, hist>>
tvars == <<tstate, tnode, thist>>
avars == <<agraph, astate, anode, aret, ahist, savers>>
mvars == <<MEMORY_STORE, store_calls>>
vars == <<bvars, tvars, avars, mvars>>

\* ------------------------------------------------------------------ bounds

\* max_retries is drawn from 0..MaxRetries.
MaxRetries == 3
\* The number of supersteps app.invoke runs before LangGraph gives up with
\* GraphRecursionError (the library's default recursion_limit is 25).
RecursionLimit == 25

\* ------------------------------------------------------------------ inputs

\* The claims a run is started with: empty, whitespace-only, ordinary.
Claims == {"", " ", "The Boeing 747 has four engines"}

\* str.strip on the claims above.
Strip(s) == IF s = " " THEN "" ELSE s

\* Python truthiness of a string that may be None.
TruthyStr(s) == s # NoStr /\ s # ""
\* Python truthiness of an integer that may be None.
TruthyInt(n) == n # NoInt /\ n # 0

\* What the structured oracle of check_claim can do when invoked: raise
\* (timeout, schema validation failure), or return a BSDetectorOutput whose
\* confidence the schema keeps in 0..100 and whose verdict and reasoning
\* are free strings.
OracleVerdicts == {"BS", "LEGITIMATE", "MAYBE"}
OracleConfidences == {0, 30, 65, 90, 100}
OracleReasonings == {"", "Four engines indeed"}
OracleOutcomes ==
    {[raises |-> TRUE, verdict |-> NoStr, confidence |-> NoInt, reasoning |-> NoStr]}
    \cup [raises : {FALSE}, verdict : OracleVerdicts,
          confidence : OracleConfidences, reasoning : OracleReasonings]

\* ------------------------------------------------------- m1_baseline.py

\* A result dict; error = NoStr when the dict has no "error" key.
Dict(v, c, r, e) ==
    [present |-> TRUE, verdict |-> v, confidence |-> c, reasoning |-> r, error |-> e]
NoDict ==
    [present |-> FALSE, verdict |-> NoStr, confidence |-> NoInt,
     reasoning |-> NoStr, error |-> NoStr]

\* check_claim invokes the oracle unless the claim fails validation.
CheckClaimInvokesOracle(claim) == ~(claim = "" \/ Strip(claim) = "")

\* check_claim(claim, llm), given what the oracle does if it is invoked.
check_claim(claim, out) ==
    IF ~CheckClaimInvokesOracle(claim)
    THEN Dict("ERROR", 0, "Empty claim provided", "Invalid input")
    ELSE IF out.raises
    THEN Dict("ERROR", 0, "Failed to analyze claim", "oracle exception")
    ELSE IF out.verdict \notin {"BS", "LEGITIMATE"}
    THEN Dict("ERROR", out.confidence, out.reasoning, "Invalid verdict returned")
    ELSE Dict(out.verdict, out.confidence, out.reasoning, NoStr)

\* ------------------------------------------------------ m2_langgraph.py

\* BSDetectorState(claim=claim, retry_count=0, max_retries=max_retries)
BSDetectorState(claim, max_retries) ==
    [claim |-> claim, retry_count |-> 0, max_retries |-> max_retries,
     verdict |-> NoStr, confidence |-> NoInt, reasoning |-> NoStr,
     error |-> NoStr, result |-> NoDict]

HistInit ==
    [steps |-> 0,          \* supersteps (node executions) of the run
     detect_calls |-> 0,   \* executions of detect_bs_node
     oracle_calls |-> 0,   \* invocations of the oracle by check_claim
     retry_runs |-> 0,     \* executions of retry_node
     format_runs |-> 0,    \* executions of format_output_node
     fails |-> 0,          \* detection attempts that failed
     raised_fails |-> 0,   \* ... by detect_bs_node catching an exception
     last |-> NoDict,      \* the dict of the last successful detection
     waits |-> <<>>,       \* retry_node's sleeps, in half seconds
     route |-> <<>>,       \* labels a directly called predicate returned
     updates |-> <<>>]     \* dicts a directly called formatter returned

\* route_after_detection that retries while retry_count <= max_retries.
route_after_detection_Inclusive(s) ==
    IF TruthyStr(s.verdict) /\ s.verdict \notin {"ERROR", NoStr} THEN "success"
    ELSE IF s.retry_count <= s.max_retries THEN "retry"
    ELSE "error"

\* route_after_detection(state)
route_after_detection(s) ==
    IF TruthyStr(s.verdict) /\ s.verdict \notin {"ERROR", NoStr} THEN "success"
    ELSE IF s.retry_count < s.max_retries THEN "retry"
    ELSE "error"

\* The conditional edges of "detect" in create_bs_detector_graph.
DetectEdges(label) ==
    CASE label = "success" -> "format_output"
      [] label = "retry" -> "retry"
      [] label = "error" -> "format_output"

\* detect_bs_node's update when check_claim returned `result`.
DetectUpdate(s, result) ==
    [s EXCEPT !.verdict = result.verdict, !.confidence = result.confidence,
              !.reasoning = result.reasoning, !.error = result.error,
              !.result = result]

\* detect_bs_node whose except branch counts the failure twice.
DetectExceptUpdate_Twice(s) ==
    [s EXCEPT !.error = "factory exception", !.retry_count = s.retry_count + 2]

\* detect_bs_node's update when an exception was caught.
DetectExceptUpdate(s) ==
    [s EXCEPT !.error = "factory exception", !.retry_count = s.retry_count + 1]

Running == entry = "check_claim_with_graph" /\ hist.steps < RecursionLimit

\* Node "detect": detect_bs_node, then the conditional edge.
\* factory_raises: LLMFactory.create_llm() raises inside the node's try.
DetectBs ==
    /\ Running /\ node = "detect"
    /\ \E factory_raises \in BOOLEAN, out \in OracleOutcomes :
         LET invoked == ~factory_raises /\ CheckClaimInvokesOracle(state.claim)
             result == check_claim(state.claim, out)
             s2 == IF factory_raises THEN DetectExceptUpdate(state)
                   ELSE DetectUpdate(state, result)
             failed == factory_raises \/ result.verdict = "ERROR"
         IN  /\ (~invoked => out = CHOOSE o \in OracleOutcomes : o.raises)
             /\ state' = s2
             /\ node' = DetectEdges(route_after_detection(s2))
             /\ hist' = [hist EXCEPT
                    !.steps = @ + 1,
                    !.detect_calls = @ + 1,
                    !.oracle_calls = IF invoked THEN @ + 1 ELSE @,
                    !.fails = IF failed THEN @ + 1 ELSE @,
                    !.raised_fails = IF factory_raises THEN @ + 1 ELSE @,
                    !.last = IF failed THEN @ ELSE result]
    /\ UNCHANGED <<entry, ret, tvars, avars, mvars>>

\* retry_node's sleep, 2 ** (retry_count - 1) seconds, in half seconds.
RetryWait(retry_count) == 2 ^ retry_count

\* Node "retry": retry_node sleeps and returns {}; then the edge to "detect".
RetryNode ==
    /\ Running /\ node = "retry"
    /\ node' = "detect"
    /\ hist' = [hist EXCEPT !.steps = @ + 1, !.retry_runs = @ + 1,
                            !.waits = Append(@, RetryWait(state.retry_count))]
    /\ UNCHANGED <<entry, state, ret, tvars, avars, mvars>>

\* format_output_node without its "stored result" shortcut: the result is
\* always rebuilt from the state fields and their defaults.
FormatOutputUpdate_Rebuild(s) ==
    [s EXCEPT !.result =
        Dict(IF TruthyStr(s.verdict) THEN s.verdict ELSE "ERROR",
             IF TruthyInt(s.confidence) THEN s.confidence ELSE 0,
             IF TruthyStr(s.reasoning) THEN s.reasoning ELSE "No analysis available",
             IF TruthyStr(s.error) THEN s.error ELSE NoStr)]

\* format_output_node's update.
FormatOutputUpdate(s) ==
    IF s.result.present THEN s
    ELSE [s EXCEPT !.result =
            Dict(IF TruthyStr(s.verdict) THEN s.verdict ELSE "ERROR",
                 IF TruthyInt(s.confidence) THEN s.confidence ELSE 0,
                 IF TruthyStr(s.reasoning) THEN s.reasoning ELSE "No analysis available",
                 IF TruthyStr(s.error) THEN s.error ELSE NoStr)]

\* Node "format_output": format_output_node, then the edge to END.
FormatOutput ==
    /\ Running /\ node = "format_output"
    /\ state' = FormatOutputUpdate(state)
    /\ node' = "END"
    /\ hist' = [hist EXCEPT !.steps = @ + 1, !.format_runs = @ + 1]
    /\ UNCHANGED <<entry, ret, tvars, avars, mvars>>

\* app.invoke gives up: the superstep limit is reached before END, and
\* GraphRecursionError leaves check_claim_with_graph, which catches nothing.
GraphRecursionError ==
    /\ entry = "check_claim_with_graph"
    /\ node \in {"detect", "retry", "format_output"}
    /\ hist.steps >= RecursionLimit
    /\ node' = "raised"
    /\ UNCHANGED <<entry, state, ret, hist, tvars, avars, mvars>>

\* check_claim_with_graph returns final_state.get("result") or the fallback.
ReturnFromGraph ==
    /\ entry = "check_claim_with_graph" /\ node = "END"
    /\ ret' = IF state.result.present THEN state.result
              ELSE Dict("ERROR", 0, "Graph execution failed", "Unknown error")
    /\ node' = "returned"
    /\ UNCHANGED <<entry, state, hist, tvars, avars, mvars>>

\* The direct check: check_claim(claim, llm) called by itself.
CheckClaimDirect ==
    /\ entry = "check_claim" /\ node = "call"
    /\ \E out \in OracleOutcomes :
         LET invoked == CheckClaimInvokesOracle(state.claim)
         IN  /\ (~invoked => out = CHOOSE o \in OracleOutcomes : o.raises)
             /\ ret' = check_claim(state.claim, out)
             /\ hist' = [hist EXCEPT !.oracle_calls = IF invoked THEN @ + 1 ELSE @]
    /\ node' = "returned"
    /\ UNCHANGED <<entry, state, tvars, avars, mvars>>

InitBaseline ==
    /\ entry \in {"check_claim", "check_claim_with_graph"}
    /\ \E claim \in Claims, max_retries \in 0..MaxRetries :
         /\ entry = "check_claim" => max_retries = 0
         /\ state = BSDetectorState(claim, max_retries)
    /\ node = IF entry = "check_claim" THEN "call" ELSE "detect"
    /\ ret = NoDict
    /\ hist = HistInit

NextBaseline ==
    \/ DetectBs
    \/ RetryNode
    \/ FormatOutput
    \/ GraphRecursionError
    \/ ReturnFromGraph
    \/ CheckClaimDirect

\* ---------------------------------------------------------- m4_tools.py

\* Free text is a sequence of tokens; "" is the empty sequence and a
\* missing text is NoText.  An f-string prints a missing text as "None".
NoText == <<"<None>">>
Fmt(t) == IF t = NoText THEN <<"None">> ELSE t
TruthyText(t) == t # NoText /\ t # <<>>

\* An Optional[bool] is "true", "false" or NoStr.
OptBools == {"true", "false", NoStr}

Max(a, b) == IF a >= b THEN a ELSE b
Min(a, b) == IF a <= b THEN a ELSE b

\* BSDetectorState of m4_tools.py, with the defaults of its fields.
ToolsState(claim) ==
    [claim |-> claim,
     initial_verdict |-> NoStr, initial_confidence |-> NoInt,
     initial_reasoning |-> NoText,
     needs_search |-> FALSE, confidence_threshold |-> 70,
     search_queries |-> <<>>, search_results |-> <<>>, extracted_facts |-> <<>>,
     evidence_summary |-> NoText, evidence_supports_claim |-> NoStr,
     final_verdict |-> NoStr, final_confidence |-> NoInt,
     final_reasoning |-> NoText,
     sources_used |-> <<>>, used_search |-> FALSE, error |-> NoStr]

\* revise_verdict_node that flips a LEGITIMATE verdict only: the branch
\* for a BS verdict that the evidence supports is missing.
revise_verdict_node_OneWay(s) ==
    IF s.evidence_supports_claim = NoStr
    THEN [s EXCEPT !.final_verdict = s.initial_verdict,
                   !.final_confidence = Max(s.initial_confidence - 10, 40),
                   !.final_reasoning = Fmt(s.initial_reasoning) \o
                       <<"\n\n", "Note: Web search was attempted but didn't provide clear evidence.">>]
    ELSE IF s.evidence_supports_claim = "false" /\ s.initial_verdict = "LEGITIMATE"
    THEN [s EXCEPT !.final_verdict = "BS",
                   !.final_confidence = 80,
                   !.final_reasoning =
                       <<"Initially seemed legitimate, but evidence indicates otherwise.", "\n\n">>
                       \o Fmt(s.evidence_summary)]
    ELSE [s EXCEPT !.final_verdict = s.initial_verdict,
                   !.final_confidence =
                       Min(s.initial_confidence
                           + (IF s.evidence_supports_claim = "true" THEN 15 ELSE 0), 95),
                   !.final_reasoning = Fmt(s.initial_reasoning) \o
                       <<"\n\n", "Evidence analysis:", "\n">> \o Fmt(s.evidence_summary)]

\* revise_verdict_node(state): the state with the node's update merged.
revise_verdict_node(s) ==
    IF s.evidence_supports_claim = NoStr
    THEN [s EXCEPT !.final_verdict = s.initial_verdict,
                   !.final_confidence = Max(s.initial_confidence - 10, 40),
                   !.final_reasoning = Fmt(s.initial_reasoning) \o
                       <<"\n\n", "Note: Web search was attempted but didn't provide clear evidence.">>]
    ELSE IF s.evidence_supports_claim = "false" /\ s.initial_verdict = "LEGITIMATE"
    THEN [s EXCEPT !.final_verdict = "BS",
                   !.final_confidence = 80,
                   !.final_reasoning =
                       <<"Initially seemed legitimate, but evidence indicates otherwise.", "\n\n">>
                       \o Fmt(s.evidence_summary)]
    ELSE IF s.evidence_supports_claim = "true" /\ s.initial_verdict = "BS"
    THEN [s EXCEPT !.final_verdict = "LEGITIMATE",
                   !.final_confidence = 80,
                   !.final_reasoning =
                       <<"Initially seemed like BS, but evidence supports the claim.", "\n\n">>
                       \o Fmt(s.evidence_summary)]
    ELSE [s EXCEPT !.final_verdict = s.initial_verdict,
                   !.final_confidence =
                       Min(s.initial_confidence
                           + (IF s.evidence_supports_claim = "true" THEN 15 ELSE 0), 95),
                   !.final_reasoning = Fmt(s.initial_reasoning) \o
                       <<"\n\n", "Evidence analysis:", "\n">> \o Fmt(s.evidence_summary)]

\* The fields format_output_node of m4_tools.py picks before attribution.
ToolsPick(s) ==
    IF s.used_search
    THEN [verdict |-> IF TruthyStr(s.final_verdict) THEN s.final_verdict
                      ELSE s.initial_verdict,
          confidence |-> IF TruthyInt(s.final_confidence) THEN s.final_confidence
                         ELSE s.initial_confidence,
          reasoning |-> IF TruthyText(s.final_reasoning) THEN s.final_reasoning
                        ELSE s.initial_reasoning]
    ELSE [verdict |-> s.initial_verdict, confidence |-> s.initial_confidence,
          reasoning |-> s.initial_reasoning]

\* format_output_node raises TypeError when it appends the attribution to a
\* reasoning that is None.
ToolsFormatRaises(s) == Len(s.sources_used) > 0 /\ ToolsPick(s).reasoning = NoText

\* The attribution suffix, one token per number of sources.
SourcesSuffix(n) ==
    <<"\n\n", IF n = 1 THEN "Sources consulted: 1 web searches"
              ELSE IF n = 2 THEN "Sources consulted: 2 web searches"
              ELSE "Sources consulted: 3 web searches">>

\* format_output_node(state) of m4_tools.py, when it does not raise.
tools_format_output_node(s) ==
    LET pick == ToolsPick(s)
    IN  [s EXCEPT !.final_verdict = pick.verdict,
                  !.final_confidence = pick.confidence,
                  !.final_reasoning =
                      IF Len(s.sources_used) > 0
                      THEN pick.reasoning \o SourcesSuffix(Len(s.sources_used))
                      ELSE pick.reasoning]

\* route_after_initial_check
route_after_initial_check(s) ==
    IF s.needs_search THEN "generate_queries" ELSE "format_output"

ToolsHistInit ==
    [steps |-> 0, input |-> ToolsState(""), again |-> [present |-> FALSE],
     merged |-> [present |-> FALSE],  \* the formatter's dict on a re-run
     route |-> <<>>,
     after_initial |-> NoStr,  \* label route_after_initial_check returned
     tools_built |-> 0,        \* WebSearchTool objects constructed
     searched |-> <<>>,        \* queries handed to the search, in order
     analysis |-> [present |-> FALSE],  \* what the evidence oracle did
     raised_in |-> NoStr,      \* node an exception left the run from
     result |-> [present |-> FALSE]]    \* dict check_claim_with_tools returns

\* Node "revise_verdict", then the edge to "format_output".
ReviseVerdict ==
    /\ tnode = "revise_verdict"
    /\ tstate' = revise_verdict_node(tstate)
    /\ tnode' = "format_output"
    /\ thist' = [thist EXCEPT !.steps = @ + 1]
    /\ UNCHANGED <<bvars, avars, mvars>>

\* Node "format_output" of m4_tools.py, then the edge to END.
ToolsFormatOutput ==
    /\ tnode = "format_output"
    /\ IF ToolsFormatRaises(tstate)
       THEN tnode' = "raised" /\ tstate' = tstate
       ELSE tnode' = "END" /\ tstate' = tools_format_output_node(tstate)
    /\ thist' = [thist EXCEPT !.steps = @ + 1]
    /\ UNCHANGED <<bvars, avars, mvars>>

\* The states revise_verdict_node is called on: the initial assessment of
\* check_claim and the outcome of the evidence analysis, after a search.
InitialVerdicts == {"BS", "LEGITIMATE", "ERROR"}
Summaries == {NoText, <<"Evidence confirms this">>}
SourceLists == {<<>>, <<"query1", "query2">>}
InitRevise ==
    /\ \E v \in InitialVerdicts, c \in 0..100, e \in OptBools,
          sm \in Summaries, src \in SourceLists :
         tstate = [ToolsState("Test claim") EXCEPT
                     !.initial_verdict = v, !.initial_confidence = c,
                     !.initial_reasoning = <<"Seems right">>,
                     !.needs_search = TRUE,
                     !.evidence_supports_claim = e,
                     !.evidence_summary = sm,
                     !.sources_used = src,
                     !.used_search = TRUE]
    /\ tnode = "revise_verdict"
    /\ thist = [ToolsHistInit EXCEPT !.input = tstate]

NextRevise ==
    \/ ReviseVerdict
    \/ ToolsFormatOutput

\* The states format_output_node of m4_tools.py is called on directly, as
\* the unit test calls it: fields as BSDetectorState constructs them (None)
\* or as earlier nodes set them; the final_* fields only after a search.
FormatVerdicts == {NoStr, "BS", "LEGITIMATE"}
FormatConfidences == {NoInt, 0, 60, 90}
FormatReasonings == {NoText, <<"Seems right">>}
InitFormat ==
    /\ \E used \in BOOLEAN, iv \in FormatVerdicts, ic \in FormatConfidences,
          ir \in FormatReasonings, fv \in FormatVerdicts,
          fc \in FormatConfidences, fr \in FormatReasonings,
          src \in SourceLists :
         /\ (~used => fv = NoStr /\ fc = NoInt /\ fr = NoText /\ src = <<>>)
         /\ tstate = [ToolsState("Test claim") EXCEPT
                        !.initial_verdict = iv, !.initial_confidence = ic,
                        !.initial_reasoning = ir,
                        !.final_verdict = fv, !.final_confidence = fc,
                        !.final_reasoning = fr,
                        !.sources_used = src, !.used_search = used]
    /\ tnode = "format_output"
    /\ thist = [ToolsHistInit EXCEPT !.input = tstate]

\* What one call of format_output_node of m4_tools.py hands back: the
\* exception or the three fields of the dict.
ToolsFormatCall(s) ==
    IF ToolsFormatRaises(s)
    THEN [present |-> TRUE, raised |-> TRUE, final_verdict |-> NoStr,
          final_confidence |-> NoInt, final_reasoning |-> NoText]
    ELSE [present |-> TRUE, raised |-> FALSE,
          final_verdict |-> tools_format_output_node(s).final_verdict,
          final_confidence |-> tools_format_output_node(s).final_confidence,
          final_reasoning |-> tools_format_output_node(s).final_reasoning]

\* A formatter that writes its three fields into the state object it reads.
ToolsFormatLeaves_InPlace(s) ==
    IF ToolsFormatRaises(s) THEN s ELSE tools_format_output_node(s)

\* The state object after format_output_node of m4_tools.py was called on
\* it: the node assigns to local names only.
ToolsFormatLeaves(s) == s

\* The caller calls format_output_node a second time on the same object.
ToolsFormatAgain ==
    /\ tnode \in {"END", "raised"}
    /\ thist.steps = 1
    /\ ~thist.again.present
    /\ thist' = [thist EXCEPT
                   !.again = ToolsFormatCall(ToolsFormatLeaves(thist.input))]
    /\ UNCHANGED <<tstate, tnode, bvars, avars, mvars>>

\* The engine has merged the dict of format_output_node into the state;
\* the node is run once more, on the merged state.
ToolsFormatMerged ==
    /\ tnode = "END"
    /\ thist.steps = 1
    /\ ~thist.merged.present
    /\ thist' = [thist EXCEPT !.merged = ToolsFormatCall(tstate)]
    /\ UNCHANGED <<tstate, tnode, bvars, avars, mvars>>

\* -------------------------------------- m5_routing.py: the text parser

\* The tokens of a text that are white space to str.strip.
IsSpace(tok) == tok \in {" ", "\n", "\n\n"}

\* The position of the first token of `text` equal to `tok` (0: none).
IndexOf(text, tok) ==
    IF \E i \in 1..Len(text) : text[i] = tok
    THEN CHOOSE i \in 1..Len(text) :
            text[i] = tok /\ \A j \in 1..(i - 1) : text[j] # tok
    ELSE 0

\* text.split(label)[1]: what lies between the first occurrence of the
\* label and the next one (or the end); the label occurs in `text`.
SplitSecond(text, label) ==
    LET i == IndexOf(text, label)
        rest == SubSeq(text, i + 1, Len(text))
        j == IndexOf(rest, label)
    IN  IF j = 0 THEN rest ELSE SubSeq(rest, 1, j - 1)

\* text.split("\n")[0]
FirstLine(text) ==
    LET j == IndexOf(text, "\n")
    IN  IF j = 0 THEN text ELSE SubSeq(text, 1, j - 1)

\* text.strip()
StripText(text) ==
    IF \A i \in 1..Len(text) : IsSpace(text[i]) THEN <<>>
    ELSE LET a == CHOOSE i \in 1..Len(text) :
                    ~IsSpace(text[i]) /\ \A j \in 1..(i - 1) : IsSpace(text[j])
             b == CHOOSE i \in 1..Len(text) :
                    ~IsSpace(text[i]) /\ \A j \in (i + 1)..Len(text) : IsSpace(text[j])
         IN  SubSeq(text, a, b)

\* `"LEGITIMATE" in line` and `"BS" in line` are substring tests: a token
\* holds the word when the word is part of its spelling.
HoldsLegitimate(tok) == tok \in {"LEGITIMATE", "ILLEGITIMATE", "[LEGITIMATE/BS]"}
HoldsBS(tok) == tok \in {"BS", "ABSURD", "[LEGITIMATE/BS]"}
LineHasLegitimate(line) == \E i \in 1..Len(line) : HoldsLegitimate(line[i])
LineHasBS(line) == \E i \in 1..Len(line) : HoldsBS(line[i])

\* int(s): the numerals int accepts, and their values; every other
\* spelling ("85%", "high", "") raises ValueError.
Numerals == {"0", "30", "45", "60", "85", "95", "150", "-5"}
IntOf(tok) ==
    CASE tok = "0" -> 0 [] tok = "30" -> 30 [] tok = "45" -> 45
      [] tok = "60" -> 60 [] tok = "85" -> 85 [] tok = "95" -> 95
      [] tok = "150" -> 150 [] tok = "-5" -> 0 - 5
IntParses(text) == Len(text) = 1 /\ text[1] \in Numerals

\* _parse_expert_response(content, expert_name)
parse_expert_response(content, expert_name) ==
    LET verdict_line ==
            IF IndexOf(content, "VERDICT:") > 0
            THEN StripText(FirstLine(SplitSecond(content, "VERDICT:")))
            ELSE <<>>
        conf_line ==
            IF IndexOf(content, "CONFIDENCE:") > 0
            THEN StripText(FirstLine(SplitSecond(content, "CONFIDENCE:")))
            ELSE <<>>
    IN  [verdict |-> IF LineHasLegitimate(verdict_line) THEN "LEGITIMATE"
                     ELSE IF LineHasBS(verdict_line) THEN "BS"
                     ELSE "UNCERTAIN",
         confidence |-> IF IntParses(conf_line) THEN IntOf(conf_line[1]) ELSE 50,
         reasoning |-> IF IndexOf(content, "REASONING:") > 0
                       THEN StripText(SplitSecond(content, "REASONING:"))
                       ELSE content,
         analyzing_agent |-> expert_name]

\* What the free-text oracle of an expert answers.
ExpertContents ==
    {<<"VERDICT:", "LEGITIMATE", "\n", "CONFIDENCE:", "85", "\n",
       "REASONING:", "First flight was in 1903">>,
     <<"VERDICT:", "BS", "\n", "CONFIDENCE:", "30", "\n",
       "REASONING:", "No record of it", "\n">>,
     <<"VERDICT:", "BS", "\n", "CONFIDENCE:", "60", "\n",
       "REASONING:", "Unlikely">>,
     <<"VERDICT:", "BS", "\n", "CONFIDENCE:", "150", "\n",
       "REASONING:", "Absolutely certain">>,
     <<"VERDICT:", "LEGITIMATE", "\n", "CONFIDENCE:", "0", "\n",
       "REASONING:", "A guess">>,
     <<"VERDICT:", "LEGITIMATE", "\n", "CONFIDENCE:", "95", "\n", "REASONING:", "\n">>,
     <<"VERDICT:", "ILLEGITIMATE", "\n", "CONFIDENCE:", "85%", "\n",
       "REASONING:", "Made up">>,
     <<"Verdict:", "BS", "\n", "Confidence:", "95", "\n", "Reasoning:", "Nonsense">>,
     <<"I cannot assess this claim">>,
     <<>>}

\* ------------------- node_updates.py, m5_routing.py: router and experts

ClaimTypes == {"technical", "historical", "current_event", "general"}
ConfidenceLevels == {"high", "medium", "low"}
ExpertVerdicts == {"BS", "LEGITIMATE", "UNCERTAIN"}

\* class MultiAgentState
MultiAgentState(claim) ==
    [claim |-> claim, claim_type |-> NoStr, confidence_level |-> NoStr,
     retry_count |-> 0, max_retries |-> 3,
     verdict |-> NoStr, confidence |-> NoInt, reasoning |-> NoText,
     analyzing_agent |-> NoStr, error |-> NoStr]

\* The engine merges the update a node returns into the state, channel by
\* channel: a key the state schema does not declare has no channel.
Apply(s, update) ==
    [k \in DOMAIN s |-> IF k \in DOMAIN update THEN update[k] ELSE s[k]]

\* class RouterUpdate, class ExpertUpdate (model_dump)
RouterUpdate(claim_type, confidence_level) ==
    [claim_type |-> claim_type, confidence_level |-> confidence_level]
ExpertUpdate(verdict, confidence, reasoning, analyzing_agent) ==
    [verdict |-> verdict, confidence |-> confidence, reasoning |-> reasoning,
     analyzing_agent |-> analyzing_agent]

\* What the structured oracle of the technical expert answers: ExpertUpdate
\* validates the verdict and 0 <= confidence <= 100.
StructuredConfidences == {0, 45, 65, 95}
StructuredReasonings == {<<>>, <<"The specification says so">>}

\* route_to_expert and the edge map of the router
route_to_expert(s) ==
    IF ~TruthyStr(s.claim_type) THEN "general_expert"
    ELSE IF s.claim_type = "technical" THEN "technical_expert"
    ELSE IF s.claim_type = "historical" THEN "historical_expert"
    ELSE IF s.claim_type = "current_event" THEN "current_event_expert"
    ELSE IF s.claim_type = "general" THEN "general_expert"
    ELSE "other_expert"  \* claim_type + "_expert" for any other string
RegisteredExperts ==
    {"technical_expert", "historical_expert", "current_event_expert",
     "general_expert"}
ExpertEdges(label) ==
    IF label = "current_event_expert" THEN "current_events_expert"
    ELSE IF label \in RegisteredExperts THEN label
    ELSE "raised"  \* the engine finds no edge under the label

\* Where the edge out of an expert leads in each graph.
AfterExpert ==
    CASE agraph = "routing" -> "END"
      [] agraph = "review" -> "check_needs_review"
      [] agraph = "hitl" -> "uncertainty_detector"
      [] agraph = "expert" -> "END"
      [] agraph = "v2" -> "check_needs_review"

NoResult == [present |-> FALSE]
NoCheckpoint == [present |-> FALSE]
NoHumanInput == [present |-> FALSE]
AgentHistInit ==
    [oracle_calls |-> 0, raised_in |-> NoStr, app |-> 0, thread |-> NoStr,
     interrupted |-> FALSE, resumed |-> FALSE, resume_thread |-> NoStr,
     human |-> NoHumanInput, router_failed |-> FALSE, content |-> NoText,
     again |-> NoResult, route |-> <<>>,
     second |-> [stage |-> "none", thread |-> NoStr, saver |-> 0,
                 human |-> NoHumanInput],
     log |-> <<>>,                \* what the expert with tools invoked
     tool_calls |-> <<>>,         \* tool calls of its first response
     second_tool_calls |-> <<>>,  \* ... and of its second
     trace |-> <<>>,              \* the nodes that ran, in order
     labels |-> <<>>,             \* what the routing predicates returned
     handler |-> "none"]          \* the human_input_handler of the caller

\* The checkpoint the engine writes after a step when the app was compiled
\* with a checkpointer: the state and the node that runs next.
Checkpoint(s, next) == [present |-> TRUE, state |-> s, next |-> next]

\* The stores after a step of the running app that led to state s.
Saved(s, next) ==
    IF ahist.app > 0
    THEN [savers EXCEPT ![ahist.app][ahist.thread] = Checkpoint(s, next)]
    ELSE savers

\* An exception leaves the node: the engine re-raises it from invoke.
Raise(where, calls) ==
    /\ anode' = "raised"
    /\ ahist' = [ahist EXCEPT !.raised_in = where,
                              !.oracle_calls = @ + calls,
                              !.trace = Append(@, anode)]
    /\ UNCHANGED <<agraph, astate, aret, savers>>

\* A node returned `update`; the run goes on at `next`.
Step(update, next, calls) ==
    /\ astate' = Apply(astate, update)
    /\ anode' = next
    /\ ahist' = [ahist EXCEPT !.oracle_calls = @ + calls,
                              !.trace = Append(@, anode)]
    /\ savers' = Saved(Apply(astate, update), next)
    /\ UNCHANGED <<agraph, aret>>

\* A node returned `update` and the predicate of its conditional edges
\* returned `label`, under which `edges` holds the next node.
StepRouted(update, label, edges) ==
    /\ astate' = Apply(astate, update)
    /\ anode' = (IF label \in DOMAIN edges THEN edges[label] ELSE "raised")
    /\ ahist' = [ahist EXCEPT !.trace = Append(@, anode),
                              !.labels = Append(@, label)]
    /\ savers' = Saved(Apply(astate, update), anode')
    /\ UNCHANGED <<agraph, aret>>

\* An expert analysed the free text `content` with _parse_expert_response
\* and returned `update`.
StepParsed(content, update, next, calls) ==
    /\ astate' = Apply(astate, update)
    /\ anode' = next
    /\ ahist' = [ahist EXCEPT !.oracle_calls = @ + calls, !.content = content,
                              !.trace = Append(@, anode)]
    /\ savers' = Saved(Apply(astate, update), next)
    /\ UNCHANGED <<agraph, aret>>

\* What the structured oracle of the router does: the factory or the call
\* raises, the call returns None, or it produces a payload, which
\* RouterUpdate validates against its two Literal types.
RouterOutcome(kind, claim_type, confidence_level) ==
    [kind |-> kind, claim_type |-> claim_type,
     confidence_level |-> confidence_level]
RouterOutcomes ==
    {RouterOutcome("raises", NoStr, NoStr), RouterOutcome("none", NoStr, NoStr)}
    \cup {RouterOutcome("payload", ct, cl) :
            ct \in ClaimTypes \cup {"science"},
            cl \in ConfidenceLevels \cup {"unsure"}}
\* The try block of router_node ends in an exception.
RouterFails(o) ==
    \/ o.kind # "payload"
    \/ o.claim_type \notin ClaimTypes
    \/ o.confidence_level \notin ConfidenceLevels

\* router_node that hands the oracle's payload on without validating it.
router_node_Unvalidated(o) ==
    IF o.kind # "payload" THEN RouterUpdate("general", "medium")
    ELSE RouterUpdate(o.claim_type, o.confidence_level)

\* router_node(state), by what its oracle does: any failure inside, the
\* factory's included, gives the default.
router_node(o) ==
    IF RouterFails(o) THEN RouterUpdate("general", "medium")
    ELSE RouterUpdate(o.claim_type, o.confidence_level)

RouterNode ==
    /\ anode = "router"
    /\ \E o \in RouterOutcomes :
         LET next == ExpertEdges(route_to_expert(Apply(astate, router_node(o))))
         IN  /\ astate' = Apply(astate, router_node(o))
             /\ anode' = next
             /\ ahist' = [ahist EXCEPT
                             !.oracle_calls = @ + 1,
                             !.router_failed = RouterFails(o),
                             !.trace = Append(@, anode),
                             !.labels =
                                Append(@, route_to_expert(
                                            Apply(astate, router_node(o))))]
             /\ savers' = Saved(Apply(astate, router_node(o)), next)
    /\ UNCHANGED <<agraph, aret, bvars, tvars, mvars>>

\* technical_expert_node: structured output first, free text when that
\* fails; the factory and the free-text call stand outside a try.
TechnicalExpert ==
    /\ anode = "technical_expert"
    /\ \/ Raise("technical_expert", 0)
       \/ \E v \in ExpertVerdicts, c \in StructuredConfidences,
             r \in StructuredReasonings :
            Step(ExpertUpdate(v, c, r, "Technical Expert"), AfterExpert, 1)
       \/ \E content \in ExpertContents :
            StepParsed(content, parse_expert_response(content, "Technical Expert"),
                 AfterExpert, 2)
       \/ Raise("technical_expert", 2)
    /\ UNCHANGED <<bvars, tvars, mvars>>

\* historical_expert_node
HistoricalExpert ==
    /\ anode = "historical_expert"
    /\ \/ Raise("historical_expert", 1)
       \/ \E content \in ExpertContents :
            StepParsed(content, parse_expert_response(content, "Historical Expert"),
                 AfterExpert, 1)
    /\ UNCHANGED <<bvars, tvars, mvars>>

\* current_events_expert_node (the routing graph's expert without tools)
CurrentEventsExpert ==
    /\ anode = "current_events_expert"
    /\ agraph = "routing"
    /\ \/ Raise("current_events_expert", 1)
       \/ \E content \in ExpertContents :
            StepParsed(content, parse_expert_response(content, "Current Events Expert"),
                 AfterExpert, 1)
    /\ UNCHANGED <<bvars, tvars, mvars>>

\* general_expert_node
GeneralExpert ==
    /\ anode = "general_expert"
    /\ \/ Raise("general_expert", 1)
       \/ \E content \in ExpertContents :
            StepParsed(content, parse_expert_response(content, "General Expert"),
                 AfterExpert, 1)
    /\ UNCHANGED <<bvars, tvars, mvars>>

\* check_claim_with_routing: the dict built from the final state.
RoutingResult(s) ==
    [present |-> TRUE, verdict |-> s.verdict, confidence |-> s.confidence,
     reasoning |-> s.reasoning, claim_type |-> s.claim_type,
     analyzing_agent |-> s.analyzing_agent]

CheckClaimWithRoutingReturns ==
    /\ agraph = "routing"
    /\ anode = "END"
    /\ aret' = RoutingResult(astate)
    /\ anode' = "returned"
    /\ UNCHANGED <<agraph, astate, ahist, savers, bvars, tvars, mvars>>

\* check_claim_with_routing(claim) has built the state and started the app.
InitRouting ==
    /\ agraph = "routing"
    /\ \E claim \in Claims : astate = MultiAgentState(claim)
    /\ anode = "router"
    /\ aret = NoResult
    /\ ahist = AgentHistInit
    /\ savers = <<>>

NextRouting ==
    \/ RouterNode
    \/ TechnicalExpert
    \/ HistoricalExpert
    \/ CurrentEventsExpert
    \/ GeneralExpert
    \/ CheckClaimWithRoutingReturns

\* ------------------------- m5_tools.py, m6_human_in_loop.py: uncertainty

\* A WebSearchResult in the state, by what its printed form mentions.
WebSearchResult(confirm, deny) == [confirm |-> confirm, deny |-> deny]
\* Optional[List[WebSearchResult]]
NoSearchResults == [present |-> FALSE, items |-> <<>>]
SearchResults(items) == [present |-> TRUE, items |-> items]
TruthyResults(sr) == sr.present /\ Len(sr.items) > 0

\* class ToolEnhancedState (its message list is never read or written)
ToolEnhancedState(claim) ==
    MultiAgentState(claim) @@
    [search_performed |-> FALSE, search_results |-> NoSearchResults,
     tools_used |-> <<>>]

NoRequest == [present |-> FALSE]
NoFeedback == [present |-> FALSE]

\* A float of the uncertainty arithmetic: the decimal literal t/10 it is
\* nearest to, and the side of that literal's double it lies on.
Float(t, d) == [t |-> t, d |-> d]

\* x + inc/10 in IEEE double arithmetic, for the sums calculate_uncertainty
\* can form: all are the double of the decimal sum except the six listed.
FAdd(x, inc) ==
    CASE x = Float(2, 0) /\ inc = 1 -> Float(3, 1)
      [] x = Float(4, 0) /\ inc = 2 -> Float(6, 1)
      [] x = Float(6, 1) /\ inc = 1 -> Float(7, 1)
      [] x = Float(7, 0) /\ inc = 1 -> Float(8, 0 - 1)
      [] x = Float(7, 0) /\ inc = 2 -> Float(9, 0 - 1)
      [] x = Float(9, 0 - 1) /\ inc = 1 -> Float(10, 0 - 1)
      [] OTHER -> Float(x.t + inc, 0)
\* x > lit/10, x >= lit/10, min(x, lit/10)
FGreater(x, lit) == x.t > lit \/ (x.t = lit /\ x.d > 0)
FAtLeast(x, lit) == x.t > lit \/ (x.t = lit /\ x.d >= 0)
FMin(x, lit) == IF FGreater(x, lit) THEN Float(lit, 0) ELSE x

\* class HumanInLoopState of m6_human_in_loop.py; _force_human_review is the
\* attribute check_claim_with_human_in_loop sets on the object.
HumanInLoopState(claim) ==
    ToolEnhancedState(claim) @@
    [needs_human_review |-> FALSE, human_review_request |-> NoRequest,
     human_feedback |-> NoFeedback, review_reasons |-> <<>>,
     expert_opinions |-> <<>>, expert_disagreement |-> FALSE,
     uncertainty_score |-> Float(0, 0), conflicting_evidence |-> FALSE,
     _force_human_review |-> FALSE]

\* The verdicts of the expert opinions (a dict: expert name -> verdict).
OpinionVerdicts(opinions) == {opinions[k] : k \in DOMAIN opinions}

\* calculate_uncertainty(state)
calculate_uncertainty(s) ==
    LET u1 == IF TruthyInt(s.confidence) /\ s.confidence < 50
                 THEN FAdd(Float(0, 0), 4)
              ELSE IF TruthyInt(s.confidence) /\ s.confidence < 70
                 THEN FAdd(Float(0, 0), 2)
              ELSE Float(0, 0)
        u2 == IF DOMAIN s.expert_opinions # {}
                 /\ Cardinality(OpinionVerdicts(s.expert_opinions)) > 1
              THEN FAdd(u1, 3) ELSE u1
        items == s.search_results.items
        u3 == IF TruthyResults(s.search_results) /\ Len(items) > 1
                 /\ (\E i \in 1..Len(items) : items[i].confirm)
                 /\ (\E i \in 1..Len(items) : items[i].deny)
              THEN FAdd(u2, 2) ELSE u2
        u4 == IF s.claim_type = "current_event" /\ ~s.search_performed
              THEN FAdd(u3, 1) ELSE u3
    IN  FMin(u4, 10)

\* A review reason: the fixed wording and the number printed into it.
Reason(kind, number) == [kind |-> kind, number |-> number]

\* The reasons uncertainty_detector_node collects, in its order.
review_reasons(s, uncertainty) ==
    IF s._force_human_review
    THEN <<Reason("Human review explicitly requested", NoInt)>>
    ELSE (IF TruthyInt(s.confidence) /\ s.confidence < 50
          THEN <<Reason("Very low confidence", s.confidence)>> ELSE <<>>)
         \o (IF s.expert_disagreement
             THEN <<Reason("Experts disagree on verdict", NoInt)>> ELSE <<>>)
         \o (IF FGreater(uncertainty, 6)
             THEN <<Reason("High uncertainty score", uncertainty.t)>> ELSE <<>>)
         \o (IF s.claim_type = "current_event" /\ s.search_performed
                /\ ~TruthyResults(s.search_results)
             THEN <<Reason("No evidence found for recent event", NoInt)>>
             ELSE <<>>)

\* needs_review of uncertainty_detector_node
needs_review(s, uncertainty) ==
    \/ s._force_human_review
    \/ Len(review_reasons(s, uncertainty)) > 0
    \/ FGreater(uncertainty, 6)

\* class HumanReviewRequest, as uncertainty_detector_node builds it
HumanReviewRequest(s, reasons) ==
    [present |-> TRUE, claim |-> s.claim, ai_verdict |-> s.verdict,
     ai_confidence |-> s.confidence, ai_reasoning |-> s.reasoning,
     uncertainty_reasons |-> reasons, expert_opinions |-> s.expert_opinions,
     search_results |-> s.search_results]

\* The update uncertainty_detector_node returns.
UncertaintyUpdate(s) ==
    LET uncertainty == calculate_uncertainty(s)
        reasons == review_reasons(s, uncertainty)
    IN  IF needs_review(s, uncertainty)
        THEN [uncertainty_score |-> uncertainty, needs_human_review |-> TRUE,
              human_review_request |-> HumanReviewRequest(s, reasons),
              review_reasons |-> reasons]
        ELSE [uncertainty_score |-> uncertainty, needs_human_review |-> FALSE]

\* route_after_uncertainty_check that always asks for the human.
route_after_uncertainty_check_Always(s) == "human_review"

\* route_after_uncertainty_check
route_after_uncertainty_check(s) ==
    IF s.needs_human_review THEN "human_review" ELSE "format_output"

\* The edge map of uncertainty_detector.
UncertaintyEdges ==
    [l \in {"human_review", "format_output"} |-> l]

\* uncertainty_detector_node.  HumanReviewRequest declares its search
\* results as dicts and is handed WebSearchResult objects: whether the
\* validation lets them pass depends on the validating library, so with
\* results in the state the construction either succeeds or raises.
UncertaintyDetector ==
    /\ anode = "uncertainty_detector"
    /\ \/ StepRouted(UncertaintyUpdate(astate),
                     route_after_uncertainty_check(
                        Apply(astate, UncertaintyUpdate(astate))),
                     UncertaintyEdges)
       \/ /\ needs_review(astate, calculate_uncertainty(astate))
          /\ TruthyResults(astate.search_results)
          /\ Raise("uncertainty_detector", 0)
    /\ UNCHANGED <<bvars, tvars, mvars>>

\* The states the node is called on directly, as the unit tests call it.
HarnessConfidences == {NoInt, 0, 30, 49, 50, 69, 70, 95}
HarnessVerdicts == {"BS", "UNCERTAIN"}
HarnessOpinions ==
    {<<>>,
     [k \in {"Technical Expert"} |-> "BS"],
     [k \in {"Technical Expert", "General Expert"} |-> "BS"],
     [k \in {"Technical Expert", "General Expert"} |->
        IF k = "General Expert" THEN "LEGITIMATE" ELSE "BS"]}
HarnessSearchResults ==
    {NoSearchResults, SearchResults(<<>>),
     SearchResults(<<WebSearchResult(TRUE, FALSE)>>),
     SearchResults(<<WebSearchResult(TRUE, TRUE)>>),
     SearchResults(<<WebSearchResult(TRUE, FALSE), WebSearchResult(FALSE, FALSE)>>),
     SearchResults(<<WebSearchResult(TRUE, FALSE), WebSearchResult(FALSE, TRUE)>>)}

InitUncertainty ==
    /\ agraph = "harness"
    /\ \E c \in HarnessConfidences, ops \in HarnessOpinions,
          dis \in BOOLEAN, sr \in HarnessSearchResults,
          ct \in {"current_event", "general"}, sp \in BOOLEAN,
          force \in BOOLEAN, v \in HarnessVerdicts :
         astate = [HumanInLoopState("SpaceX launched 5 rockets yesterday")
                     EXCEPT !.verdict = v, !.confidence = c,
                            !.reasoning = <<"Assessment">>,
                            !.expert_opinions = ops,
                            !.expert_disagreement = dis,
                            !.search_results = sr, !.claim_type = ct,
                            !.search_performed = sp,
                            !._force_human_review = force]
    /\ anode = "uncertainty_detector"
    /\ aret = NoResult
    /\ ahist = AgentHistInit
    /\ savers = <<>>

NextUncertainty == UncertaintyDetector

\* -------------------------------- m5_tools.py: the expert with the tool

MaxToolCalls == 2
ToolNames == {"search_for_information", "calculator"}
ToolCallLists == UNION {[1..n -> ToolNames] : n \in 0..MaxToolCalls}
IsSearch(name) == name = "search_for_information"
\* What search_for_information answers: JSON of a WebSearchResult, always.
SearchOutcomes ==
    {WebSearchResult(TRUE, FALSE), WebSearchResult(FALSE, TRUE),
     WebSearchResult(FALSE, FALSE)}

\* The update current_events_expert_with_tools_node returns.
ToolsExpertUpdate(tool_calls, results, analysis_content) ==
    parse_expert_response(analysis_content, "Current Events Expert (with tools)")
    @@ [search_performed |-> Len(tool_calls) > 0,
        search_results |-> SearchResults(results),
        tools_used |-> SelectSeq(tool_calls, IsSearch)]

\* Tool calls the second response of the oracle can carry.
SecondToolCalls == {<<>>, <<"search_for_information">>}

Searches(tool_calls) ==
    [i \in 1..Len(SelectSeq(tool_calls, IsSearch)) |-> "search"]
IsOracle(ev) == ev = "oracle"
OracleCalls(log) == Len(SelectSeq(log, IsOracle))

\* An expert that goes on executing tools while a response asks for them.
ToolsExpertLog_Loop(tool_calls, second_tool_calls) ==
    IF tool_calls = <<>> THEN <<"oracle">>
    ELSE <<"oracle">> \o Searches(tool_calls) \o <<"oracle">> \o
         (IF second_tool_calls = <<>> THEN <<>>
          ELSE Searches(second_tool_calls) \o <<"oracle">>)

\* What current_events_expert_with_tools_node invokes, in order, when its
\* first response carries tool_calls and its second second_tool_calls:
\* lines 159-160, the loop of 168-188, lines 191-193.  final_response's
\* tool calls are never read.
ToolsExpertLog(tool_calls, second_tool_calls) ==
    IF tool_calls = <<>> THEN <<"oracle">>
    ELSE <<"oracle">> \o Searches(tool_calls) \o <<"oracle">>

\* The node ended in an exception after the invocations of `log'.
ToolsExpertRaises(tool_calls, second_tool_calls, log) ==
    /\ anode' = "raised"
    /\ ahist' = [ahist EXCEPT
                   !.raised_in = "current_events_expert",
                   !.trace = Append(@, anode),
                   !.oracle_calls = @ + OracleCalls(log),
                   !.log = log,
                   !.tool_calls =
                      IF Len(log) > 0 THEN tool_calls ELSE <<>>,
                   !.second_tool_calls =
                      IF OracleCalls(log) > 1 THEN second_tool_calls
                      ELSE <<>>]
    /\ UNCHANGED <<agraph, astate, aret, savers>>

\* The node returned its update.
ToolsExpertReturns(tool_calls, second_tool_calls, results, content) ==
    /\ astate' = Apply(astate, ToolsExpertUpdate(tool_calls, results, content))
    /\ anode' = AfterExpert
    /\ ahist' = [ahist EXCEPT
                   !.oracle_calls =
                      @ + OracleCalls(ToolsExpertLog(tool_calls,
                                                     second_tool_calls)),
                   !.content = content,
                   !.trace = Append(@, anode),
                   !.log = ToolsExpertLog(tool_calls, second_tool_calls),
                   !.tool_calls = tool_calls,
                   !.second_tool_calls =
                      IF tool_calls = <<>> THEN <<>> ELSE second_tool_calls]
    /\ savers' = Saved(Apply(astate,
                             ToolsExpertUpdate(tool_calls, results, content)),
                       AfterExpert)
    /\ UNCHANGED <<agraph, aret>>

\* current_events_expert_with_tools_node: the first answer may call tools;
\* with tool calls the searches run and a second answer is analysed.  Any
\* invocation may raise, and so may create_llm and the parser.
CurrentEventsExpertWithTools ==
    /\ anode = "current_events_expert"
    /\ agraph \in {"review", "hitl", "expert", "v2"}
    /\ \E tool_calls \in ToolCallLists, second_tool_calls \in SecondToolCalls :
         \/ \E k \in 0..Len(ToolsExpertLog(tool_calls, second_tool_calls)) :
              ToolsExpertRaises(
                 tool_calls, second_tool_calls,
                 SubSeq(ToolsExpertLog(tool_calls, second_tool_calls), 1, k))
         \/ \E results \in [1..Len(SelectSeq(tool_calls, IsSearch)) ->
                              SearchOutcomes],
               content \in ExpertContents :
              ToolsExpertReturns(tool_calls, second_tool_calls, results,
                                 content)
    /\ UNCHANGED <<bvars, tvars, mvars>>

\* The node called directly on the state the router leaves for a
\* current-event claim.
InitToolsExpert ==
    /\ agraph = "expert"
    /\ \E claim \in Claims \ {" "} :
         astate = [ToolEnhancedState(claim) EXCEPT
                     !.claim_type = "current_event",
                     !.confidence_level = "medium"]
    /\ anode = "current_events_expert"
    /\ aret = NoResult
    /\ ahist = AgentHistInit
    /\ savers = <<>>

NextToolsExpert == CurrentEventsExpertWithTools

\* ------------------------- m6_human_in_loop_simple.py: review by interrupt

\* class HumanInLoopState of m6_human_in_loop_simple.py
SimpleHumanInLoopState(claim) ==
    ToolEnhancedState(claim) @@
    [needs_human_review |-> FALSE, human_review_reason |-> Reason(NoStr, NoInt),
     human_feedback_received |-> FALSE]

\* check_needs_review(state)
check_needs_review(s) ==
    IF TruthyInt(s.confidence) /\ s.confidence < 50
    THEN [needs_human_review |-> TRUE,
          human_review_reason |-> Reason("Low confidence", s.confidence)]
    ELSE IF s.verdict = "UNCERTAIN"
    THEN [needs_human_review |-> TRUE,
          human_review_reason |-> Reason("AI returned uncertain verdict", NoInt)]
    ELSE IF s.claim_type = "current_event" /\ TruthyInt(s.confidence)
            /\ s.confidence < 70
    THEN [needs_human_review |-> TRUE,
          human_review_reason |->
              Reason("Current event with moderate confidence", s.confidence)]
    ELSE [needs_human_review |-> FALSE]

\* route_after_review_check
route_after_review_check(s) ==
    IF s.needs_human_review /\ ~s.human_feedback_received
    THEN "human_review" ELSE "format_output"

\* The result dict format_output_node builds.
review_format_output(s) ==
    [present |-> TRUE,
     verdict |-> IF TruthyStr(s.verdict) THEN s.verdict ELSE "ERROR",
     confidence |-> IF TruthyInt(s.confidence) THEN s.confidence ELSE 0,
     reasoning |-> IF TruthyText(s.reasoning) THEN s.reasoning
                   ELSE <<"No reasoning provided">>,
     claim_type |-> s.claim_type, analyzing_agent |-> s.analyzing_agent,
     used_search |-> s.search_performed, tools_used |-> s.tools_used,
     human_reviewed |-> s.needs_human_review,
     human_review_reason |-> s.human_review_reason,
     search_results |-> IF TruthyResults(s.search_results)
                        THEN s.search_results ELSE NoSearchResults]

\* `"result" in result`: the dict invoke returns holds the key.
HasResult(s) == "result" \in DOMAIN s /\ s.result.present

CheckNeedsReview ==
    /\ agraph = "review"
    /\ anode = "check_needs_review"
    /\ Step(check_needs_review(astate),
            route_after_review_check(Apply(astate, check_needs_review(astate))),
            0)
    /\ UNCHANGED <<bvars, tvars, mvars>>

\* format_output_node returns its dict under the key "result".
ReviewFormatOutput ==
    /\ agraph = "review"
    /\ anode = "format_output"
    /\ Step([result |-> review_format_output(astate)], "END", 0)
    /\ UNCHANGED <<bvars, tvars, mvars>>

\* check_claim_with_human_review: invoke has come back, at the end of the
\* graph or interrupted before human_review, and the entry point returns
\* the value under "result" or None.
CheckClaimWithHumanReviewReturns ==
    /\ agraph = "review"
    /\ anode \in {"END", "human_review"}
    /\ aret' = IF HasResult(astate) THEN astate.result ELSE NoResult
    /\ anode' = "returned"
    /\ ahist' = [ahist EXCEPT !.interrupted = (anode = "human_review")]
    /\ UNCHANGED <<agraph, astate, savers, bvars, tvars, mvars>>

Threads == {"default", "demo_1"}
\* memory = MemorySaver(): the store of a newly compiled app.
EmptySaver == [t \in Threads |-> NoCheckpoint]

HumanVerdicts == {"BS", "LEGITIMATE"}
HumanConfidences == {80}
HumanReasonings == {<<"I checked the launch log">>}

\* resume_after_human_input(thread_id, verdict, confidence, reasoning)
\* compiles an app of its own, so the checkpointer it reads is a new
\* MemorySaver.  invoke(None, config) finds no checkpoint for the thread in
\* it and has no input to start from; where the engine returns None for
\* that instead of raising, invoke(human_updates, config) starts a run
\* whose state lacks the claim.  Either way the call ends in an exception.
ResumeAfterHumanInput ==
    /\ agraph = "review"
    /\ anode = "returned"
    /\ ~ahist.resumed
    /\ \E thread_id \in Threads, verdict \in HumanVerdicts,
          confidence \in HumanConfidences, reasoning \in HumanReasonings :
         /\ savers' = Append(savers, EmptySaver)
         /\ ~savers'[Len(savers')][thread_id].present
         /\ anode' = "raised"
         /\ ahist' = [ahist EXCEPT
                         !.resumed = TRUE, !.resume_thread = thread_id,
                         !.raised_in = "resume_after_human_input",
                         !.human = [present |-> TRUE, verdict |-> verdict,
                                    confidence |-> confidence,
                                    reasoning |-> reasoning]]
    /\ UNCHANGED <<agraph, astate, aret, bvars, tvars, mvars>>

\* A second caller of resume_after_human_input, running beside the first:
\* app = create_human_in_loop_graph() gives it a MemorySaver of its own.
ConcurrentResumeCompiles ==
    /\ agraph = "review"
    /\ anode \in {"returned", "raised"}
    /\ ahist.raised_in \in {NoStr, "resume_after_human_input"}
    /\ ahist.second.stage = "none"
    /\ \E thread_id \in Threads, verdict \in HumanVerdicts,
          confidence \in HumanConfidences, reasoning \in HumanReasonings :
         /\ savers' = Append(savers, EmptySaver)
         /\ ahist' = [ahist EXCEPT
                         !.second =
                           [stage |-> "compiled", thread |-> thread_id,
                            saver |-> Len(savers'),
                            human |-> [present |-> TRUE, verdict |-> verdict,
                                       confidence |-> confidence,
                                       reasoning |-> reasoning]]]
    /\ UNCHANGED <<agraph, astate, anode, aret, bvars, tvars, mvars>>

\* ... and its app.invoke(None, config, interrupt_before=[]): the store it
\* reads is the one it compiled, which no run has written.
ConcurrentResumeInvokes ==
    /\ agraph = "review"
    /\ ahist.second.stage = "compiled"
    /\ ~savers[ahist.second.saver][ahist.second.thread].present
    /\ ahist' = [ahist EXCEPT !.second.stage = "raised"]
    /\ UNCHANGED <<agraph, astate, anode, aret, savers, bvars, tvars, mvars>>

\* check_claim_with_human_review(claim, thread_id) has compiled its app and
\* started it.  Whether the dict invoke returns can hold the key "result",
\* which HumanInLoopState does not declare, is the engine's choice.
InitReview ==
    /\ agraph = "review"
    /\ \E claim \in Claims \ {" "}, keeps_result \in BOOLEAN :
         astate = IF keeps_result
                  THEN SimpleHumanInLoopState(claim) @@ [result |-> NoResult]
                  ELSE SimpleHumanInLoopState(claim)
    /\ anode = "router"
    /\ aret = NoResult
    /\ \E thread_id \in Threads :
         ahist = [AgentHistInit EXCEPT !.app = 1, !.thread = thread_id]
    /\ savers = <<EmptySaver>>

NextReview ==
    \/ RouterNode
    \/ TechnicalExpert
    \/ HistoricalExpert
    \/ CurrentEventsExpertWithTools
    \/ GeneralExpert
    \/ CheckNeedsReview
    \/ ReviewFormatOutput
    \/ CheckClaimWithHumanReviewReturns
    \/ ResumeAfterHumanInput
    \/ ConcurrentResumeCompiles
    \/ ConcurrentResumeInvokes

\* ------------------ m6_human_in_loop.py: the graph with the review node

\* What interactive_human_input returns, and the feedback human_review_node
\* makes up when no input can be read.
HumanFeedback(verdict, confidence, reasoning, additional_context) ==
    [present |-> TRUE, verdict |-> verdict, confidence |-> confidence,
     reasoning |-> reasoning, additional_context |-> additional_context]
InteractiveFeedbacks ==
    {HumanFeedback("BS", 0, <<"Checked the log">>, NoText),
     HumanFeedback("LEGITIMATE", 85, <<"Checked the log">>,
                   <<"See the launch manifest">>)}
SimulatedFeedback ==
    HumanFeedback("UNCERTAIN", 60,
                  <<"This claim requires expert verification beyond my knowledge">>,
                  NoText)

\* What the caller's human_input_handler does: there is none, it returns
\* a HumanFeedback, or it returns None.
Handlers == {"none", "feedback", "no feedback"}
HandlerFeedbacks ==
    {HumanFeedback("LEGITIMATE", 85, <<"Human verified as true">>, NoText)}

\* An engine that hands the node the very object given to invoke.
HandlerInState_Carried(registered) == registered

\* hasattr(state, "_human_input_handler") in human_review_node: the
\* handler is an attribute check_claim_with_human_in_loop sets on the
\* object it hands to invoke; the state a node receives is built from the
\* declared fields and does not carry it.
HandlerInState(registered) == "none"

\* The update human_review_node returns for a feedback.
HumanReviewUpdate(feedback, simulated) ==
    [human_feedback |-> feedback, verdict |-> feedback.verdict,
     confidence |-> feedback.confidence,
     reasoning |->
        <<"Human review:">> \o feedback.reasoning \o
        (IF ~simulated /\ TruthyText(feedback.additional_context)
         THEN <<"Context:">> \o feedback.additional_context ELSE <<>>)]

\* human_review_node.  format_for_human calls .get on the entries of the
\* request's search results, which uncertainty_detector_node filled with
\* WebSearchResult objects: with results the print succeeds or raises.
HumanReviewNode ==
    /\ agraph = "hitl"
    /\ anode = "human_review"
    /\ IF ~astate.human_review_request.present
       THEN Step(<<>>, "format_output", 0)
       ELSE \/ /\ HandlerInState(ahist.handler) = "feedback"
               /\ \E feedback \in HandlerFeedbacks :
                    Step(HumanReviewUpdate(feedback, FALSE),
                         "format_output", 0)
            \/ /\ HandlerInState(ahist.handler) = "no feedback"
               /\ Step(<<>>, "format_output", 0)
            \/ /\ HandlerInState(ahist.handler) = "none"
               /\ \/ \E feedback \in InteractiveFeedbacks :
                       Step(HumanReviewUpdate(feedback, FALSE),
                            "format_output", 0)
                  \/ Step(HumanReviewUpdate(SimulatedFeedback, TRUE),
                          "format_output", 0)
            \/ /\ TruthyResults(astate.human_review_request.search_results)
               /\ Raise("human_review", 0)
    /\ UNCHANGED <<bvars, tvars, mvars>>

\* The dict the inner format_output_node of
\* create_human_in_loop_bs_detector builds.
hitl_format_output(s) ==
    IF ~TruthyStr(s.verdict)
    THEN [present |-> TRUE, verdict |-> "ERROR", confidence |-> 0,
          reasoning |-> <<"Processing failed - no verdict generated">>,
          human_reviewed |-> FALSE]
    ELSE [present |-> TRUE, verdict |-> s.verdict,
          confidence |-> IF TruthyInt(s.confidence) THEN s.confidence ELSE 0,
          reasoning |-> IF TruthyText(s.reasoning) THEN s.reasoning
                        ELSE <<"No reasoning provided">>,
          claim_type |-> s.claim_type, analyzing_agent |-> s.analyzing_agent,
          used_search |-> s.search_performed, tools_used |-> s.tools_used,
          human_reviewed |-> s.needs_human_review,
          uncertainty_score |-> s.uncertainty_score,
          search_results |-> IF TruthyResults(s.search_results)
                             THEN s.search_results ELSE NoSearchResults,
          human_feedback |->
             IF s.human_feedback.present
             THEN [present |-> TRUE, verdict |-> s.human_feedback.verdict,
                   confidence |-> s.human_feedback.confidence,
                   reasoning |-> s.human_feedback.reasoning]
             ELSE NoFeedback]

HitlFormatOutput ==
    /\ agraph = "hitl"
    /\ anode = "format_output"
    /\ Step([result |-> hitl_format_output(astate)], "END", 0)
    /\ UNCHANGED <<bvars, tvars, mvars>>

\* check_claim_with_human_in_loop: the value under "result", else the dict
\* built from the final state, else the dict of the except branch.
HitlResult(s) ==
    [present |-> TRUE, verdict |-> s.verdict, confidence |-> s.confidence,
     reasoning |-> s.reasoning, claim_type |-> s.claim_type,
     analyzing_agent |-> s.analyzing_agent,
     used_search |-> s.search_performed, tools_used |-> s.tools_used,
     human_reviewed |-> s.needs_human_review,
     uncertainty_score |-> s.uncertainty_score,
     human_feedback |-> s.human_feedback]

CheckClaimWithHumanInLoopReturns ==
    /\ agraph = "hitl"
    /\ anode \in {"END", "raised"}
    /\ aret' = IF anode = "raised"
               THEN [present |-> TRUE, verdict |-> "ERROR", confidence |-> 0,
                     reasoning |-> <<"Processing failed:", ahist.raised_in>>]
               ELSE IF HasResult(astate) THEN astate.result
               ELSE HitlResult(astate)
    /\ anode' = "returned"
    /\ UNCHANGED <<agraph, astate, ahist, savers, bvars, tvars, mvars>>

\* check_claim_with_human_in_loop(claim) has compiled its app, without a
\* checkpointer, and started it.
InitHitl ==
    /\ agraph = "hitl"
    /\ \E claim \in Claims \ {" "}, keeps_result \in BOOLEAN :
         astate = IF keeps_result
                  THEN HumanInLoopState(claim) @@ [result |-> NoResult]
                  ELSE HumanInLoopState(claim)
    /\ anode = "router"
    /\ aret = NoResult
    /\ \E human_input_handler \in Handlers :
         ahist = [AgentHistInit EXCEPT !.handler = human_input_handler]
    /\ savers = <<>>

NextHitl ==
    \/ RouterNode
    \/ TechnicalExpert
    \/ HistoricalExpert
    \/ CurrentEventsExpertWithTools
    \/ GeneralExpert
    \/ UncertaintyDetector
    \/ HumanReviewNode
    \/ HitlFormatOutput
    \/ CheckClaimWithHumanInLoopReturns

\* --------------- m5_human_in_loop_v2.py: the graph with the skip flag

\* The module imports its router, experts and ToolEnhancedState under the
\* names modules.m3_routing and modules.m4_tools; the repository holds
\* them in m5_routing.py and m5_tools.py, whose nodes run here.

\* class HumanInLoopState of m5_human_in_loop_v2.py
HumanInLoopStateV2(claim, skip_human_review) ==
    ToolEnhancedState(claim) @@
    [needs_human_review |-> FALSE, human_review_reason |-> Reason(NoStr, NoInt),
     skip_human_review |-> skip_human_review]

\* check_needs_review_node that does not look at the skip flag.
check_needs_review_node_NoSkip(s) == check_needs_review(s)

\* check_needs_review_node(state): the flag first, then the conditions,
\* which are those of check_needs_review.
check_needs_review_node(s) ==
    IF s.skip_human_review THEN [needs_human_review |-> FALSE]
    ELSE check_needs_review(s)

\* route_after_review_check of m5_human_in_loop_v2.py
route_after_review_check_v2(s) ==
    IF s.needs_human_review THEN "human_review" ELSE "format_output"
ReviewCheckEdges ==
    [human_review |-> "human_review", format_output |-> "format_output"]

V2CheckNeedsReview ==
    /\ agraph = "v2"
    /\ anode = "check_needs_review"
    /\ StepRouted(check_needs_review_node(astate),
                  route_after_review_check_v2(
                     Apply(astate, check_needs_review_node(astate))),
                  ReviewCheckEdges)
    /\ UNCHANGED <<bvars, tvars, mvars>>

\* simulate_human_review_node(state)
simulate_human_review_node(s) ==
    IF TruthyInt(s.confidence) /\ s.confidence < 50
    THEN [confidence |-> 85,
          reasoning |-> <<"Human review: Verified claim.">> \o s.reasoning]
    ELSE [confidence |-> s.confidence,
          reasoning |->
             <<"Human review: Confirmed AI assessment.">> \o s.reasoning]

SimulateHumanReview ==
    /\ agraph = "v2"
    /\ anode = "human_review"
    /\ Step(simulate_human_review_node(astate), "format_output", 0)
    /\ UNCHANGED <<bvars, tvars, mvars>>

\* format_output_node of m5_human_in_loop_v2.py builds the dict of
\* review_format_output and returns it under "result".
V2FormatOutput ==
    /\ agraph = "v2"
    /\ anode = "format_output"
    /\ Step([result |-> review_format_output(astate)], "END", 0)
    /\ UNCHANGED <<bvars, tvars, mvars>>

\* check_claim_with_human_review_v2: the value under "result", else the
\* fallback dict; an exception of invoke leaves the function.
CheckClaimWithHumanReviewV2Returns ==
    /\ agraph = "v2"
    /\ anode = "END"
    /\ aret' = IF HasResult(astate) THEN astate.result
               ELSE [present |-> TRUE, verdict |-> astate.verdict,
                     confidence |-> astate.confidence,
                     reasoning |-> astate.reasoning,
                     human_reviewed |-> astate.needs_human_review]
    /\ anode' = "returned"
    /\ UNCHANGED <<agraph, astate, ahist, savers, bvars, tvars, mvars>>

\* check_claim_with_human_review_v2(claim, skip_human_review) has compiled
\* its app and started it.
InitV2 ==
    /\ agraph = "v2"
    /\ \E claim \in Claims \ {" "}, skip_human_review \in BOOLEAN,
          keeps_result \in BOOLEAN :
         astate = IF keeps_result
                  THEN HumanInLoopStateV2(claim, skip_human_review)
                       @@ [result |-> NoResult]
                  ELSE HumanInLoopStateV2(claim, skip_human_review)
    /\ anode = "router"
    /\ aret = NoResult
    /\ ahist = AgentHistInit
    /\ savers = <<>>

NextV2 ==
    \/ RouterNode
    \/ TechnicalExpert
    \/ HistoricalExpert
    \/ CurrentEventsExpertWithTools
    \/ GeneralExpert
    \/ V2CheckNeedsReview
    \/ SimulateHumanReview
    \/ V2FormatOutput
    \/ CheckClaimWithHumanReviewV2Returns

\* ------------------------------------- m4_tools.py: the graph, node by node

\* What the baseline oracle can answer in this graph; 69 and 70 stand on
\* the two sides of the default confidence_threshold.
ToolsOracleOutcomes ==
    {[raises |-> TRUE, verdict |-> NoStr, confidence |-> NoInt,
      reasoning |-> NoStr]}
    \cup [raises : {FALSE}, verdict : OracleVerdicts,
          confidence : {0, 69, 70, 90}, reasoning : {"Four engines indeed"}]

\* A str of the baseline as the text of this graph's reasoning fields.
TextOf(str) == IF str = NoStr THEN NoText ELSE IF str = "" THEN <<>> ELSE <<str>>

\* What check_claim hands initial_check_node: a dict, or an exception.
Checked(dict) == [raises |-> FALSE, dict |-> dict]
CheckRaised == [raises |-> TRUE, dict |-> NoDict]

\* initial_check_node that searches at a confidence equal to the threshold.
initial_check_node_Inclusive(s, check) ==
    IF check.raises
    THEN [error |-> "Initial check failed", needs_search |-> TRUE]
    ELSE [initial_verdict |-> check.dict.verdict,
          initial_confidence |-> check.dict.confidence,
          initial_reasoning |-> TextOf(check.dict.reasoning),
          needs_search |-> check.dict.confidence <= s.confidence_threshold]

\* The update initial_check_node returns (lines 55-73).
initial_check_node(s, check) ==
    IF check.raises
    THEN [error |-> "Initial check failed", needs_search |-> TRUE]
    ELSE [initial_verdict |-> check.dict.verdict,
          initial_confidence |-> check.dict.confidence,
          initial_reasoning |-> TextOf(check.dict.reasoning),
          needs_search |-> check.dict.confidence < s.confidence_threshold]

\* An exception leaves a node of this graph; check_claim_with_tools does
\* not catch it.
ToolsRaise(where) ==
    /\ tnode' = "raised"
    /\ thist' = [thist EXCEPT !.steps = @ + 1, !.raised_in = where]
    /\ UNCHANGED tstate

\* Node "initial_check" and its conditional edges.  create_llm stands
\* outside the try.  check_claim catches every exception of its own and
\* returns a dict whose confidence is an int, so what reaches the node is
\* always a dict.
InitialCheck ==
    /\ tnode = "initial_check"
    /\ \/ ToolsRaise("initial_check")
       \/ \E out \in ToolsOracleOutcomes :
            LET update == initial_check_node(
                             tstate, Checked(check_claim(tstate.claim, out)))
                label == route_after_initial_check(Apply(tstate, update))
            IN  /\ tstate' = Apply(tstate, update)
                /\ tnode' = label
                /\ thist' = [thist EXCEPT !.steps = @ + 1,
                                          !.after_initial = label]
    /\ UNCHANGED <<bvars, avars, mvars>>

\* generate_search_queries(claim, 3): the claim, its fact-check form, and
\* the first two capitalised words or the "truth about" form.
HasEntities(claim) == claim = "The Boeing 747 has four engines"
generate_search_queries(claim) ==
    << <<claim>>, <<"fact check", claim>>,
       IF HasEntities(claim) THEN <<"The Boeing", "facts verification">>
       ELSE <<"truth about", claim>> >>

\* Node "generate_queries"
GenerateQueries ==
    /\ tnode = "generate_queries"
    /\ tstate' = Apply(tstate,
                       [search_queries |-> generate_search_queries(tstate.claim)])
    /\ tnode' = "search_web"
    /\ thist' = [thist EXCEPT !.steps = @ + 1]
    /\ UNCHANGED <<bvars, avars, mvars>>

\* What the web search does with one query: it raises, or it returns a
\* string: empty, with short fragments only, or with sentences of more
\* than 20 characters.
SearchKinds == {"fails", "empty", "short", "facts", "other facts"}
SearchText(kind) ==
    CASE kind = "empty" -> <<>>
      [] kind = "short" -> <<"Mach 2", "Yes">>
      [] kind = "facts" -> <<"The 747 has four engines under its wings", "Yes">>
      [] kind = "other facts" ->
           <<"The 747 has four engines under its wings",
             "Boeing built the 747 in Everett, Washington">>
IsLong(sentence) ==
    sentence \in {"The 747 has four engines under its wings",
                  "Boeing built the 747 in Everett, Washington"}

\* WebSearchTool.search_web(query)
search_web(query, kind) ==
    IF kind = "fails"
    THEN [query |-> query, results |-> NoText, success |-> FALSE,
          error |-> "Network error"]
    ELSE [query |-> query, results |-> SearchText(kind), success |-> TRUE,
          error |-> NoStr]

\* search_multiple that gives up at the first failing search.
search_multiple_Abort(queries, kinds) ==
    LET fails == {i \in 1..Len(queries) : kinds[i] = "fails"}
        last == IF fails = {} THEN Len(queries)
                ELSE CHOOSE i \in fails : \A j \in fails : i <= j
    IN  [i \in 1..last |-> search_web(queries[i], kinds[i])]

\* WebSearchTool.search_multiple(queries), the i-th search doing kinds[i].
search_multiple(queries, kinds) ==
    [i \in 1..Len(queries) |-> search_web(queries[i], kinds[i])]

\* result.get("success") and result.get("results")
Usable(result) == result.success /\ TruthyText(result.results)

\* WebSearchTool.extract_facts: of every usable result the sentences among
\* its first three that are longer than 20 characters, without repeats, at
\* most ten.
RECURSIVE RawFacts(_)
RawFacts(results) ==
    IF results = <<>> THEN <<>>
    ELSE (IF Usable(Head(results))
          THEN SelectSeq(SubSeq(Head(results).results, 1,
                                Min(3, Len(Head(results).results))), IsLong)
          ELSE <<>>) \o RawFacts(Tail(results))
RECURSIVE Unique(_)
Unique(facts) ==
    IF facts = <<>> THEN <<>>
    ELSE LET rest == Unique(SubSeq(facts, 1, Len(facts) - 1))
             last == facts[Len(facts)]
         IN  IF \E i \in DOMAIN rest : rest[i] = last THEN rest
             ELSE Append(rest, last)
extract_facts(results) ==
    SubSeq(Unique(RawFacts(results)), 1, Min(10, Len(Unique(RawFacts(results)))))

\* The sources search_web_node collects: the queries of the usable results.
SourcesOf(results) ==
    [i \in 1..Len(SelectSeq(results, Usable)) |->
        SelectSeq(results, Usable)[i].query]

\* The update search_web_node returns.
search_web_node(s, kinds) ==
    LET search_results == search_multiple(s.search_queries, kinds)
    IN  [search_results |-> search_results,
         extracted_facts |-> extract_facts(search_results),
         sources_used |-> SourcesOf(search_results),
         used_search |-> TRUE]

\* Node "search_web".  WebSearchTool(max_results=3) stands outside the try.
SearchWeb ==
    /\ tnode = "search_web"
    /\ \/ /\ ToolsRaise("search_web")
       \/ \E kinds \in [1..Len(tstate.search_queries) -> SearchKinds] :
            /\ tstate' = Apply(tstate, search_web_node(tstate, kinds))
            /\ tnode' = "analyze_evidence"
            /\ thist' = [thist EXCEPT
                           !.steps = @ + 1,
                           !.tools_built = @ + 1,
                           !.searched =
                              [i \in 1..Len(search_multiple(
                                              tstate.search_queries, kinds))
                                 |-> tstate.search_queries[i]]]
    /\ UNCHANGED <<bvars, avars, mvars>>

\* What the evidence oracle answers: the words after SUMMARY:, the word
\* after ASSESSMENT:, the words after KEY FACTS:.
Analysis(summary, assessment, key_facts) ==
    [raises |-> FALSE, summary |-> summary, assessment |-> assessment,
     key_facts |-> key_facts]
AnalysisOutcomes ==
    {[raises |-> TRUE, summary |-> <<>>, assessment |-> NoStr,
      key_facts |-> <<>>]}
    \cup {Analysis(<<"Evidence confirms the engine count">>, a,
                   <<"Four engines">>) :
            a \in {"SUPPORTS", "REFUTES", "INCONCLUSIVE", "supports"}}
    \cup {Analysis(<<"No source refutes the claim">>, "SUPPORTS",
                   <<"Four engines">>),
          Analysis(<<"One source supports it, one is silent">>,
                   "INCONCLUSIVE", <<"Four engines">>),
          Analysis(<<"The evidence is mixed">>, "INCONCLUSIVE",
                   <<"A forum post refutes it", "A manual supports it">>)}

\* response.content
AnalysisText(out) ==
    <<"SUMMARY:">> \o out.summary \o <<"ASSESSMENT:", out.assessment>> \o
    <<"KEY FACTS:">> \o out.key_facts

\* "REFUTES" in token.upper(), "SUPPORTS" in token.upper()
HasRefutes(token) ==
    token \in {"REFUTES", "refutes", "No source refutes the claim",
               "A forum post refutes it"}
HasSupports(token) ==
    token \in {"SUPPORTS", "supports", "One source supports it, one is silent",
               "A manual supports it"}
InText(text, word) ==
    \E i \in DOMAIN text :
       IF word = "REFUTES" THEN HasRefutes(text[i]) ELSE HasSupports(text[i])

\* The update analyze_evidence_node returns when it has facts to show.
analyze_evidence_node(s, out) ==
    IF out.raises
    THEN [evidence_summary |-> <<"Evidence analysis failed">>,
          evidence_supports_claim |-> NoStr]
    ELSE [evidence_summary |-> AnalysisText(out),
          evidence_supports_claim |->
             IF InText(AnalysisText(out), "REFUTES") THEN "false"
             ELSE IF InText(AnalysisText(out), "SUPPORTS") THEN "true"
             ELSE NoStr]

\* Node "analyze_evidence".  Without facts it returns before create_llm;
\* with facts create_llm stands outside the try.
AnalyzeEvidence ==
    /\ tnode = "analyze_evidence"
    /\ IF tstate.extracted_facts = <<>>
       THEN /\ tstate' = Apply(tstate,
                  [evidence_summary |-> <<"No evidence found through search.">>,
                   evidence_supports_claim |-> NoStr])
            /\ tnode' = "revise_verdict"
            /\ thist' = [thist EXCEPT !.steps = @ + 1]
       ELSE \/ ToolsRaise("analyze_evidence")
            \/ \E out \in AnalysisOutcomes :
                 /\ tstate' = Apply(tstate, analyze_evidence_node(tstate, out))
                 /\ tnode' = "revise_verdict"
                 /\ thist' = [thist EXCEPT
                                !.steps = @ + 1,
                                !.analysis = [present |-> TRUE, out |-> out]]
    /\ UNCHANGED <<bvars, avars, mvars>>

\* check_claim_with_tools: the dict built from what invoke returns.
CheckClaimWithToolsReturns ==
    /\ tnode = "END"
    /\ thist.after_initial # NoStr
    /\ ~thist.result.present
    /\ thist' = [thist EXCEPT
                   !.result = [present |-> TRUE,
                               verdict |-> tstate.final_verdict,
                               confidence |-> tstate.final_confidence,
                               reasoning |-> tstate.final_reasoning,
                               used_search |-> tstate.used_search,
                               sources |-> tstate.sources_used]]
    /\ UNCHANGED <<tstate, tnode, bvars, avars, mvars>>

\* check_claim_with_tools(claim) has compiled its app and started it.
InitTools ==
    /\ \E claim \in Claims : tstate = ToolsState(claim)
    /\ tnode = "initial_check"
    /\ thist = [ToolsHistInit EXCEPT !.input = tstate]

NextTools ==
    \/ InitialCheck
    \/ GenerateQueries
    \/ SearchWeb
    \/ AnalyzeEvidence
    \/ ReviseVerdict
    \/ ToolsFormatOutput
    \/ CheckClaimWithToolsReturns

\* ------------------------------------ m7_memory.py: the shared memory

\* The number of store_claim calls that run concurrently.
MaxStoreCalls == 2

\* The claims stored, with what extract_entities finds in each (in the
\* order of one list(set(...))) and the key phrases of line 87.
StoredClaims ==
    {"Boeing builds quantum engines", "The A380 is made by Airbus",
     "planes fly"}
extract_entities(claim) ==
    CASE claim = "Boeing builds quantum engines" -> <<"Boeing">>
      [] claim = "The A380 is made by Airbus" -> <<"Airbus", "A380">>
      [] OTHER -> <<>>
KeyPhrases(claim) ==
    IF claim = "Boeing builds quantum engines" THEN <<"quantum">> ELSE <<>>
Entities == {"Boeing", "Airbus", "A380"}
Phrases == {"quantum"}

\* MEMORY_STORE as the module creates it; a missing key of a defaultdict
\* reads as its default.
EmptyStore ==
    [claims |-> <<>>, entities |-> [en \in Entities |-> <<>>],
     patterns |-> [ph \in Phrases |-> 0]]

NoCall == [pc |-> "idle"]
IdleMemory ==
    /\ MEMORY_STORE = EmptyStore
    /\ store_calls = [t \in 1..MaxStoreCalls |-> NoCall]
InitMemory == IdleMemory

\* len(MEMORY_STORE["claims"]) - 1, as line 82 evaluates it.
IndexAt(call, claims) == Len(claims) - 1

\* store_claim(claim, verdict, confidence, reasoning), lines 66-78: the
\* record is built and appended to the claims list.
StoreClaimAppends(t) ==
    /\ store_calls[t].pc = "idle"
    /\ \E claim \in StoredClaims, verdict \in {"BS", "LEGITIMATE"} :
         LET claim_record ==
               [claim |-> claim, verdict |-> verdict, confidence |-> 90,
                reasoning |-> "Checked", entities |-> extract_entities(claim)]
         IN  /\ MEMORY_STORE' =
                  [MEMORY_STORE EXCEPT !.claims = Append(@, claim_record)]
             /\ store_calls' =
                  [store_calls EXCEPT
                     ![t] = [pc |-> "index", claim |-> claim,
                             verdict |-> verdict,
                             entities |-> extract_entities(claim),
                             phrases |-> KeyPhrases(claim), read |-> 0]]
    /\ UNCHANGED <<bvars, tvars, avars>>

\* Where the call goes once its entities are indexed.
AfterIndex(call) ==
    IF call.verdict = "BS" /\ call.phrases # <<>> THEN "read pattern"
    ELSE "done"

\* Lines 81-82, one entity: the position of the last record of the list,
\* as it is now, goes under the entity.
StoreClaimIndexes(t) ==
    LET call == store_calls[t]
    IN  /\ call.pc = "index"
        /\ IF call.entities = <<>>
           THEN /\ store_calls' =
                     [store_calls EXCEPT ![t].pc = AfterIndex(call)]
                /\ UNCHANGED MEMORY_STORE
           ELSE /\ MEMORY_STORE' =
                     [MEMORY_STORE EXCEPT
                        !.entities[Head(call.entities)] =
                           Append(@, IndexAt(call, MEMORY_STORE.claims))]
                /\ store_calls' =
                     [store_calls EXCEPT ![t].entities = Tail(@)]
        /\ UNCHANGED <<bvars, tvars, avars>>

\* Line 89, MEMORY_STORE["patterns"][phrase] += 1: the count is read ...
StoreClaimReadsPattern(t) ==
    LET call == store_calls[t]
    IN  /\ call.pc = "read pattern"
        /\ store_calls' =
             [store_calls EXCEPT
                ![t].pc = "write pattern",
                ![t].read = MEMORY_STORE.patterns[Head(call.phrases)]]
        /\ UNCHANGED <<MEMORY_STORE, bvars, tvars, avars>>

\* ... and one more than what was read is written back.
StoreClaimWritesPattern(t) ==
    LET call == store_calls[t]
    IN  /\ call.pc = "write pattern"
        /\ MEMORY_STORE' =
             [MEMORY_STORE EXCEPT
                !.patterns[Head(call.phrases)] = call.read + 1]
        /\ store_calls' =
             [store_calls EXCEPT
                ![t].phrases = Tail(@),
                ![t].pc = IF Tail(call.phrases) = <<>> THEN "done"
                          ELSE "read pattern"]
        /\ UNCHANGED <<bvars, tvars, avars>>

NextMemory ==
    \E t \in 1..MaxStoreCalls :
       \/ StoreClaimAppends(t)
       \/ StoreClaimIndexes(t)
       \/ StoreClaimReadsPattern(t)
       \/ StoreClaimWritesPattern(t)

\* --------------------------- the routing predicates, called directly
\* How often the caller calls a predicate on one state.
RouteCalls == 2

\* A dispatch under which every call after the first answers "error".
RouteCall_Counting(predicate, s, earlier) ==
    IF earlier > 0 THEN "error"
    ELSE CASE predicate = "route_after_detection" -> route_after_detection(s)
           [] predicate = "route_after_initial_check" ->
                route_after_initial_check(s)
           [] predicate = "route_after_review_check" ->
                route_after_review_check(s)
           [] predicate = "route_after_uncertainty_check" ->
                route_after_uncertainty_check(s)
           [] predicate = "route_to_expert" -> route_to_expert(s)

\* A call of the named predicate on s after `earlier' calls in the same
\* process: the predicates read the fields of their argument and nothing
\* else (no module variable, no clock, no counter).
RouteCall(predicate, s, earlier) ==
    CASE predicate = "route_after_detection" -> route_after_detection(s)
      [] predicate = "route_after_initial_check" ->
           route_after_initial_check(s)
      [] predicate = "route_after_review_check" ->
           route_after_review_check(s)
      [] predicate = "route_after_uncertainty_check" ->
           route_after_uncertainty_check(s)
      [] predicate = "route_to_expert" -> route_to_expert(s)

\* route_after_detection called directly on a state, as the unit test does:
\* every verdict the field can hold against every retry_count and
\* max_retries.
RouteVerdicts == {NoStr, "", "BS", "LEGITIMATE", "ERROR", "MAYBE"}
InitRoute ==
    /\ entry = "route_after_detection"
    /\ \E v \in RouteVerdicts, rc \in 0..(MaxRetries + 1),
          mr \in 0..MaxRetries :
         state = [BSDetectorState("Test claim", mr) EXCEPT
                    !.verdict = v, !.retry_count = rc]
    /\ node = "call"
    /\ ret = NoDict
    /\ hist = HistInit

RouteAfterDetection ==
    /\ entry = "route_after_detection"
    /\ Len(hist.route) < RouteCalls
    /\ node' = RouteCall(entry, state, Len(hist.route))
    /\ hist' = [hist EXCEPT !.route = Append(@, node')]
    /\ UNCHANGED <<entry, state, ret, tvars, avars, mvars>>

\* route_after_initial_check on the states initial_check_node leaves.
InitRouteTools ==
    /\ \E ns \in BOOLEAN, c \in {NoInt, 0, 60, 90} :
         tstate = [ToolsState("Test claim") EXCEPT
                     !.needs_search = ns, !.initial_confidence = c]
    /\ tnode = "route_after_initial_check"
    /\ thist = ToolsHistInit

RouteAfterInitialCheck ==
    /\ tnode = "route_after_initial_check"
    /\ Len(thist.route) < RouteCalls
    /\ thist' = [thist EXCEPT
                   !.route = Append(@, RouteCall(tnode, tstate, Len(@)))]
    /\ UNCHANGED <<tstate, tnode, bvars, avars, mvars>>

\* The predicates of the multi-agent graphs on states of their own schema.
RouteClaimTypes == ClaimTypes \cup {NoStr, ""}
InitRouteAgents ==
    /\ agraph = "route"
    /\ \E n \in BOOLEAN, f \in BOOLEAN, ct \in RouteClaimTypes :
         \/ /\ anode = "route_after_review_check"
            /\ astate = [SimpleHumanInLoopState("Test claim") EXCEPT
                           !.needs_human_review = n,
                           !.human_feedback_received = f,
                           !.claim_type = ct]
         \/ /\ anode = "route_after_uncertainty_check"
            /\ astate = [HumanInLoopState("Test claim") EXCEPT
                           !.needs_human_review = n, !.claim_type = ct]
         \/ /\ anode = "route_to_expert"
            /\ astate = [MultiAgentState("Test claim") EXCEPT
                           !.claim_type = ct]
    /\ aret = NoResult
    /\ ahist = AgentHistInit
    /\ savers = <<>>

RouteAgents ==
    /\ agraph = "route"
    /\ Len(ahist.route) < RouteCalls
    /\ ahist' = [ahist EXCEPT
                   !.route = Append(@, RouteCall(anode, astate, Len(@)))]
    /\ UNCHANGED <<agraph, astate, anode, aret, savers, bvars, tvars, mvars>>

NextRoute ==
    \/ RouteAfterDetection
    \/ RouteAfterInitialCheck
    \/ RouteAgents

\* format_output_node of m6_human_in_loop_simple.py called twice on one
\* state object, which it only reads.
ReviewFormatLeaves(s) == s
FormatInputs ==
    {[SimpleHumanInLoopState("Test claim") EXCEPT
        !.verdict = v, !.confidence = c, !.reasoning = r,
        !.search_results = sr, !.needs_human_review = n] :
       v \in {NoStr, "BS"}, c \in {NoInt, 0, 80},
       r \in {NoText, <<>>, <<"Seems right">>},
       sr \in {NoSearchResults, SearchResults(<<WebSearchResult(TRUE, FALSE)>>)},
       n \in BOOLEAN}
InitReviewFormat ==
    /\ agraph = "format_output"
    /\ astate \in FormatInputs
    /\ anode = "call"
    /\ aret = NoResult
    /\ ahist = AgentHistInit
    /\ savers = <<>>
ReviewFormatCall ==
    /\ agraph = "format_output"
    /\ anode = "call"
    /\ aret' = review_format_output(astate)
    /\ astate' = ReviewFormatLeaves(astate)
    /\ anode' = "call again"
    /\ UNCHANGED <<agraph, ahist, savers, bvars, tvars, mvars>>
ReviewFormatAgain ==
    /\ agraph = "format_output"
    /\ anode = "call again"
    /\ ahist' = [ahist EXCEPT !.again = review_format_output(astate)]
    /\ anode' = "done"
    /\ UNCHANGED <<agraph, astate, aret, savers, bvars, tvars, mvars>>

\* format_output_node of m2_langgraph.py called on a state as the graph
\* hands it over: after a detection that stored its result, or after
\* failures that left the fields unset.
FormatCalls == 2
BaselineFormatInputs ==
    {[BSDetectorState("Test claim", 3) EXCEPT
        !.verdict = d.verdict, !.confidence = d.confidence,
        !.reasoning = d.reasoning, !.error = d.error, !.result = d] :
       d \in {Dict("BS", 90, "Engines do not work so", NoStr),
              Dict("ERROR", 0, "Failed to analyze claim", "oracle exception")}}
    \cup {[BSDetectorState("Test claim", 3) EXCEPT
             !.error = err, !.retry_count = 3] :
           err \in {NoStr, "factory exception"}}
InitBaselineFormat ==
    /\ entry = "format_output_node"
    /\ state \in BaselineFormatInputs
    /\ node = "call"
    /\ ret = NoDict
    /\ hist = HistInit

\* The dict format_output_node of m2_langgraph.py returns: {} or the
\* result under "result".
format_output_node(s) ==
    IF s.result.present THEN [present |-> FALSE]
    ELSE [present |-> TRUE, result |-> FormatOutputUpdate(s).result]

\* One call, whose dict the engine merges into the state.
BaselineFormatCall ==
    /\ entry = "format_output_node"
    /\ Len(hist.updates) < FormatCalls
    /\ state' = FormatOutputUpdate(state)
    /\ hist' = [hist EXCEPT !.updates = Append(@, format_output_node(state))]
    /\ UNCHANGED <<entry, node, ret, tvars, avars, mvars>>

NextFormat ==
    \/ ToolsFormatOutput
    \/ ToolsFormatAgain
    \/ ToolsFormatMerged
    \/ BaselineFormatCall
    \/ ReviewFormatCall
    \/ ReviewFormatAgain

\* ------------------------------------------------------- specifications

\* The groups of variables a specification does not run stay idle.
IdleBaseline ==
    /\ entry = "idle" /\ node = "idle" /\ ret = NoDict /\ hist = HistInit
    /\ state = BSDetectorState("", 0)
IdleTools == tstate = ToolsState("") /\ tnode = "idle" /\ thist = ToolsHistInit
IdleAgents ==
    /\ agraph = "idle" /\ astate = MultiAgentState("") /\ anode = "idle"
    /\ aret = NoResult /\ ahist = AgentHistInit /\ savers = <<>>

\* Runs of check_claim_with_human_review_v2.
InitSpecV2 == IdleBaseline /\ IdleTools /\ InitV2 /\ IdleMemory
SpecV2 == InitSpecV2 /\ [][NextV2]_vars

\* Concurrent calls of SimpleMemoryManager.store_claim.
InitSpecMemory == IdleBaseline /\ IdleTools /\ IdleAgents /\ InitMemory
SpecMemory == InitSpecMemory /\ [][NextMemory]_vars

\* Runs of check_claim and of check_claim_with_graph.
Init == InitBaseline /\ IdleTools /\ IdleAgents /\ IdleMemory
Next == NextBaseline
Spec == Init /\ [][Next]_vars

\* revise_verdict_node and format_output_node of m4_tools.py on the states
\* the search branch hands them.
InitSpecRevise == IdleBaseline /\ InitRevise /\ IdleAgents /\ IdleMemory
SpecRevise == InitSpecRevise /\ [][NextRevise]_vars

\* route_after_detection on every state.
InitSpecRoute ==
    /\ IdleMemory
    /\ \/ InitRoute /\ IdleTools /\ IdleAgents
       \/ IdleBaseline /\ InitRouteTools /\ IdleAgents
       \/ IdleBaseline /\ IdleTools /\ InitRouteAgents
SpecRoute == InitSpecRoute /\ [][NextRoute]_vars

\* format_output_node of m4_tools.py and of m6_human_in_loop_simple.py on
\* the states a caller can hand them, each called twice.
InitSpecFormat ==
    /\ IdleMemory
    /\ \/ IdleBaseline /\ InitFormat /\ IdleAgents
       \/ IdleBaseline /\ IdleTools /\ InitReviewFormat
       \/ InitBaselineFormat /\ IdleTools /\ IdleAgents
SpecFormat == InitSpecFormat /\ [][NextFormat]_vars

\* Runs of check_claim_with_human_in_loop.
InitSpecHitl == IdleBaseline /\ IdleTools /\ InitHitl /\ IdleMemory
SpecHitl == InitSpecHitl /\ [][NextHitl]_vars

\* Runs of check_claim_with_tools of m4_tools.py.
InitSpecTools == IdleBaseline /\ InitTools /\ IdleAgents /\ IdleMemory
SpecTools == InitSpecTools /\ [][NextTools]_vars

\* current_events_expert_with_tools_node called on its own.
InitSpecToolsExpert ==
    IdleBaseline /\ IdleTools /\ InitToolsExpert /\ IdleMemory
SpecToolsExpert == InitSpecToolsExpert /\ [][NextToolsExpert]_vars

\* Runs of check_claim_with_routing.
InitSpecRouting == IdleBaseline /\ IdleTools /\ InitRouting /\ IdleMemory
SpecRouting == InitSpecRouting /\ [][NextRouting]_vars

\* Runs of check_claim_with_human_review, each followed by a call of
\* resume_after_human_input.
InitSpecReview == IdleBaseline /\ IdleTools /\ InitReview /\ IdleMemory
SpecReview == InitSpecReview /\ [][NextReview]_vars

\* uncertainty_detector_node of m6_human_in_loop.py on the states a test or
\* an expert hands it.
InitSpecUncertainty ==
    IdleBaseline /\ IdleTools /\ InitUncertainty /\ IdleMemory
SpecUncertainty == InitSpecUncertainty /\ [][NextUncertainty]_vars

\* --------------------------------------------- claims: the baseline graph

GraphRun == entry = "check_claim_with_graph"
AllAttemptsFailed == hist.detect_calls > 0 /\ hist.fails = hist.detect_calls

\* C1: in a run of check_claim_with_graph in which every detection attempt
\* fails (by an exception caught in detect_bs_node or by check_claim
\* returning an ERROR record), the run ends with a result whose verdict is
\* ERROR after max_retries retries and does not go on retrying: retry_node
\* never runs more than max_retries times, app.invoke does not give up with
\* GraphRecursionError, and what is returned has verdict ERROR.  ("Exactly
\* max_retries retries" is read as the bound it puts on the retry cycle.)
C1_RetryExhaustion ==
    (GraphRun /\ AllAttemptsFailed) =>
        /\ hist.retry_runs <= state.max_retries
        /\ node # "raised"
        /\ (node = "returned" => ret.verdict = "ERROR")

\* C2: every run of the baseline graph reaches format_output and then END:
\* it never ends by GraphRecursionError, and the detect -> retry -> detect
\* cycle is traversed at most max_retries times.
C2_ReachesEnd ==
    GraphRun =>
        /\ node = "raised" => hist.format_runs > 0
        /\ hist.retry_runs <= state.max_retries

\* C3: when detection fails k < max_retries times and then succeeds,
\* check_claim_with_graph returns the dict of the successful detection
\* (its verdict, confidence and reasoning) and detection ran k+1 times.
C3_RetryThenSucceed ==
    (GraphRun /\ node = "returned" /\ hist.last.present
        /\ hist.fails < state.max_retries) =>
        /\ ret.verdict = hist.last.verdict
        /\ ret.confidence = hist.last.confidence
        /\ ret.reasoning = hist.last.reasoning
        /\ hist.detect_calls = hist.fails + 1

\* C3 witness: two failures, one of each kind, then a success that is returned.
C3_Witness ==
    /\ GraphRun /\ node = "returned" /\ hist.last.present
    /\ state.max_retries = 3 /\ hist.fails = 2 /\ hist.raised_fails = 1
    /\ hist.detect_calls = 3 /\ ret.verdict = "BS" /\ ret.confidence = 90

\* C4: for an empty or whitespace-only claim the oracle is never invoked
\* and the run returns verdict ERROR, confidence 0 and an error, whether it
\* is the direct check or the run through the baseline graph (which
\* therefore returns instead of ending by GraphRecursionError).
BlankClaim == state.claim \in {"", " "}
C4_BlankClaim ==
    (entry \in {"check_claim", "check_claim_with_graph"} /\ BlankClaim) =>
        /\ hist.oracle_calls = 0
        /\ node # "raised"
        /\ (node = "returned" =>
              ret.verdict = "ERROR" /\ ret.confidence = 0 /\ TruthyStr(ret.error))

\* C4, the part that holds: the direct check of a blank claim.
C4_DirectCheck ==
    (entry = "check_claim" /\ BlankClaim /\ node = "returned") =>
        /\ hist.oracle_calls = 0
        /\ ret.verdict = "ERROR" /\ ret.confidence = 0 /\ TruthyStr(ret.error)

\* ------------------------------------------- claims: verdict revision

\* revise_verdict_node has run on tstate (which keeps the initial_* fields
\* and evidence_supports_claim the node read).
Revised == tnode = "format_output"

\* C8: revise_verdict_node follows the literal table: LEGITIMATE at 65 with
\* refuting evidence becomes BS at 80; BS at 70 with supporting evidence
\* becomes LEGITIMATE at 80; with evidence null the verdict is unchanged
\* and the confidence is max(initial - 10, 40).
C8_LiteralTable ==
    Revised =>
        /\ (tstate.initial_verdict = "LEGITIMATE" /\ tstate.initial_confidence = 65
              /\ tstate.evidence_supports_claim = "false")
             => (tstate.final_verdict = "BS" /\ tstate.final_confidence = 80)
        /\ (tstate.initial_verdict = "BS" /\ tstate.initial_confidence = 70
              /\ tstate.evidence_supports_claim = "true")
             => (tstate.final_verdict = "LEGITIMATE" /\ tstate.final_confidence = 80)
        /\ tstate.evidence_supports_claim = NoStr
             => /\ tstate.final_verdict = tstate.initial_verdict
                /\ tstate.final_confidence = Max(tstate.initial_confidence - 10, 40)

\* C8 witness: the second row of the table has been applied.
C8_Witness ==
    /\ Revised
    /\ tstate.initial_verdict = "BS" /\ tstate.initial_confidence = 70
    /\ tstate.evidence_supports_claim = "true"
    /\ tstate.final_verdict = "LEGITIMATE" /\ tstate.final_confidence = 80

\* The evidence contradicts / confirms the initial verdict.
Contradicts(s) ==
    \/ s.initial_verdict = "LEGITIMATE" /\ s.evidence_supports_claim = "false"
    \/ s.initial_verdict = "BS" /\ s.evidence_supports_claim = "true"
Confirms(s) ==
    \/ s.initial_verdict = "LEGITIMATE" /\ s.evidence_supports_claim = "true"
    \/ s.initial_verdict = "BS" /\ s.evidence_supports_claim = "false"

\* C9: for every initial verdict in {BS, LEGITIMATE} and confidence in
\* 0..100: unknown evidence keeps the verdict and reduces the confidence by
\* the penalty, not below the floor of 40 and never above the initial
\* value; contradicting evidence flips the verdict at confidence 80;
\* confirming evidence (for a LEGITIMATE and for a BS verdict) keeps the
\* verdict and adds the boost of 15, capped at 95.
C9_RevisionPolicy ==
    (Revised /\ tstate.initial_verdict \in {"BS", "LEGITIMATE"}) =>
        /\ tstate.evidence_supports_claim = NoStr
             => /\ tstate.final_verdict = tstate.initial_verdict
                /\ tstate.final_confidence <= tstate.initial_confidence
                /\ tstate.initial_confidence >= 40 => tstate.final_confidence >= 40
        /\ Contradicts(tstate)
             => /\ tstate.final_verdict # tstate.initial_verdict
                /\ tstate.final_verdict \in {"BS", "LEGITIMATE"}
                /\ tstate.final_confidence = 80
        /\ Confirms(tstate)
             => /\ tstate.final_verdict = tstate.initial_verdict
                /\ tstate.final_confidence = Min(tstate.initial_confidence + 15, 95)


\* ---------------------------------------------- claims: the routing graph

\* C6: for every non-empty claim and every oracle response, the result a
\* run entry point returns has a verdict among BS, LEGITIMATE, UNCERTAIN and
\* ERROR, and when the verdict is not ERROR its confidence is an integer in
\* 0..100 and its reasoning is not empty.  Here for check_claim_with_routing.
C6_ResultInvariants ==
    (agraph = "routing" /\ anode = "returned" /\ Strip(astate.claim) # "") =>
        /\ aret.verdict \in {"BS", "LEGITIMATE", "UNCERTAIN", "ERROR"}
        /\ (aret.verdict # "ERROR" =>
                /\ aret.confidence \in 0..100
                /\ TruthyText(aret.reasoning))

\* C7: a node that raises an unhandled error never propagates the exception
\* to the caller of a run entry point: the entry point returns a result with
\* verdict ERROR.  Here for check_claim_with_routing.
C7_NoPropagation ==
    (agraph = "routing" /\ ahist.raised_in # NoStr) =>
        /\ anode # "raised"
        /\ (anode = "returned" => aret.verdict = "ERROR")


\* ------------------------------------------ claims: uncertainty scoring

\* uncertainty_detector_node has returned its update.
Scored == agraph = "harness" /\ anode \in {"human_review", "format_output"}

\* Nothing but the confidence can raise the score or ask for a review.
NoOtherTrigger ==
    /\ Cardinality(DOMAIN astate.expert_opinions) <= 1
    /\ ~astate.expert_disagreement
    /\ ~TruthyResults(astate.search_results)
    /\ astate.claim_type # "current_event"
    /\ ~astate.search_performed
    /\ ~astate._force_human_review

C10_Confidence30 ==
    (Scored /\ astate.confidence = 30 /\ NoOtherTrigger) =>
        FAtLeast(astate.uncertainty_score, 4) /\ astate.needs_human_review
C10_Confidence95 ==
    (Scored /\ astate.confidence = 95 /\ NoOtherTrigger) =>
        ~FAtLeast(astate.uncertainty_score, 2) /\ ~astate.needs_human_review
C10_Below50 ==
    (Scored /\ astate.confidence \in 0..49) =>
        FAtLeast(astate.uncertainty_score, 4)
C10_From50To69 ==
    (Scored /\ astate.confidence \in 50..69) =>
        FAtLeast(astate.uncertainty_score, 2)
C10_Range ==
    Scored => FAtLeast(astate.uncertainty_score, 0)
              /\ ~FGreater(astate.uncertainty_score, 10)

\* C10: a state with confidence 30 and no other trigger gets a score of at
\* least 0.4 and needs_human_review true; one with confidence 95, a single
\* expert and no search needed gets a score below 0.2 and needs_human_review
\* false; every confidence below 50 gives a score of at least 0.4, every
\* confidence from 50 to 69 one of at least 0.2, and the score stays in [0, 1].
C10_UncertaintyScoring ==
    /\ C10_Confidence30
    /\ C10_Confidence95
    /\ C10_Below50
    /\ C10_From50To69
    /\ C10_Range


\* ------------------------------------- claims: review by interrupt

\* check_claim_with_human_review was interrupted before human_review and
\* resume_after_human_input was then called on the same thread_id.
ResumedInterrupted ==
    /\ agraph = "review"
    /\ ahist.interrupted
    /\ ahist.resumed
    /\ ahist.resume_thread = ahist.thread

\* C5: when the expert's analysis triggers review,
\* check_claim_with_human_review returns no result and leaves a checkpoint
\* under thread_id; resume_after_human_input on that thread_id finds the
\* checkpoint and returns a result with the human's verdict and confidence,
\* a reasoning that carries the human's reasoning, and human_reviewed true.
C5_InterruptResume ==
    /\ (agraph = "review" /\ ahist.interrupted) =>
          /\ (~ahist.resumed => ~aret.present)
          /\ savers[1][ahist.thread].present
          /\ savers[1][ahist.thread].next = "human_review"
    /\ ResumedInterrupted =>
          /\ savers[Len(savers)][ahist.resume_thread].present
          /\ anode # "raised"
          /\ (anode = "returned" =>
                /\ aret.present
                /\ aret.verdict = ahist.human.verdict
                /\ aret.confidence = ahist.human.confidence
                /\ aret.reasoning = <<"Human review:">> \o ahist.human.reasoning
                /\ aret.human_reviewed)


\* ------------------------------------- claims: the review-check node

\* A trigger of uncertainty_detector_node that the claim does not name.
OtherTrigger ==
    \/ astate._force_human_review
    \/ astate.expert_disagreement
    \/ /\ astate.claim_type = "current_event"
       /\ astate.search_performed
       /\ ~TruthyResults(astate.search_results)

\* C11: the review-check node sets needs_human_review to true whenever the
\* uncertainty score exceeds 0.6 or a hard trigger fires (a confidence of
\* 0..49, a verdict of UNCERTAIN), and to false with none of these.  Here
\* for uncertainty_detector_node; the triggers the node has beyond the
\* claim's are left out of the second half.
C11_ReviewTriggers ==
    Scored =>
        /\ (\/ FGreater(astate.uncertainty_score, 6)
            \/ astate.confidence \in 0..49
            \/ astate.verdict = "UNCERTAIN") => astate.needs_human_review
        /\ (/\ ~FGreater(astate.uncertainty_score, 6)
            /\ astate.confidence \notin 0..49
            /\ astate.verdict # "UNCERTAIN"
            /\ ~OtherTrigger) => ~astate.needs_human_review


\* ---------------------------------------- claims: the output formatter

\* format_output_node of m4_tools.py was called on thist.input and is done.
Formatted == thist.steps = 1 /\ tnode = "END"

\* C12: the output formatter always emits a verdict and a confidence: the
\* final_* fields when the search branch ran and set them, the initial_*
\* fields otherwise, ERROR for a verdict that is still null and 0 for a
\* confidence that is still null, so that neither is ever null.  Here for
\* format_output_node of m4_tools.py.
C12_FormatterDefaults ==
    LET given == thist.input
        v == IF given.used_search /\ given.final_verdict # NoStr
             THEN given.final_verdict ELSE given.initial_verdict
        c == IF given.used_search /\ given.final_confidence # NoInt
             THEN given.final_confidence ELSE given.initial_confidence
    IN  Formatted =>
            /\ tstate.final_verdict = (IF v = NoStr THEN "ERROR" ELSE v)
            /\ tstate.final_confidence = (IF c = NoInt THEN 0 ELSE c)


\* ------------------------------------- claims: route_after_detection

Routed == entry = "route_after_detection" /\ node # "call"
VerdictSet == state.verdict # NoStr /\ state.verdict # ""

\* C13: route_after_detection returns "success" exactly when the verdict is
\* set and is not ERROR; otherwise "retry" exactly when retry_count is below
\* max_retries; otherwise "error"; for every verdict, retry_count and
\* max_retries.
C13_RouteAfterDetection ==
    Routed =>
        /\ node \in {"success", "retry", "error"}
        /\ (node = "success") = (VerdictSet /\ state.verdict # "ERROR")
        /\ (node = "retry") =
              (/\ ~(VerdictSet /\ state.verdict # "ERROR")
               /\ state.retry_count < state.max_retries)
        /\ (node = "error") =
              (/\ ~(VerdictSet /\ state.verdict # "ERROR")
               /\ ~(state.retry_count < state.max_retries))

\* A failed detection with its retries used up has been routed to "error".
C13_Witness ==
    /\ Routed
    /\ state.verdict = "ERROR"
    /\ state.retry_count = state.max_retries
    /\ state.max_retries > 0
    /\ node = "error"


\* ------------------------------------------------ claims: the router

RouterRan == agraph = "routing" /\ anode # "router"

\* C14: router_node never halts the pipeline: whatever its oracle does,
\* raising included, it returns a claim_type among technical, historical,
\* current_event and general and a confidence_level among high, medium and
\* low, general/medium on failure, and it neither raises nor sets an error.
C14_RouterNeverHalts ==
    RouterRan =>
        /\ astate.claim_type \in ClaimTypes
        /\ astate.confidence_level \in ConfidenceLevels
        /\ (ahist.router_failed =>
               astate.claim_type = "general" /\ astate.confidence_level = "medium")
        /\ ahist.raised_in # "router"
        /\ astate.error = NoStr

\* The router's oracle failed and the claim went on to the general expert.
C14_Witness ==
    /\ RouterRan
    /\ ahist.router_failed
    /\ anode = "general_expert"


\* ------------------------------------------- claims: the text parser

\* A label in another letter case, as a reader blind to case sees it.
UpperLabel(tok) ==
    CASE tok \in {"Verdict:", "verdict:"} -> "VERDICT:"
      [] tok \in {"Confidence:", "confidence:"} -> "CONFIDENCE:"
      [] tok \in {"Reasoning:", "reasoning:"} -> "REASONING:"
      [] OTHER -> tok
UpperLabels(text) == [i \in 1..Len(text) |-> UpperLabel(text[i])]

\* An expert of the routing graph has parsed the oracle's free text.
Parsed == agraph = "routing" /\ ahist.content # NoText /\ anode # "raised"

\* C15: _parse_expert_response never raises; it finds the first VERDICT:,
\* CONFIDENCE: and REASONING: labels regardless of letter case, and for a
\* missing or malformed field it substitutes the default (UNCERTAIN, 50)
\* instead of passing a malformed value through.
C15_ParserDefaults ==
    Parsed =>
        LET blind == parse_expert_response(UpperLabels(ahist.content),
                                           astate.analyzing_agent)
        IN  /\ astate.verdict = blind.verdict
            /\ astate.confidence =
                  (IF blind.confidence \in 0..100 THEN blind.confidence ELSE 50)
            /\ astate.reasoning = blind.reasoning


BothResumed ==
    /\ ResumedInterrupted
    /\ ahist.second.stage \in {"raised", "returned"}
    /\ ahist.second.thread = ahist.thread

\* The checkpoint holds what a resume with input h writes.
WrittenBy(checkpoint, h) ==
    /\ checkpoint.present
    /\ checkpoint.state.verdict = h.verdict
    /\ checkpoint.state.confidence = h.confidence
    /\ checkpoint.state.reasoning = <<"Human review:">> \o h.reasoning
    /\ checkpoint.state.human_feedback_received

\* C18: two concurrent resume_after_human_input calls on the same thread_id
\* behave as a last-write-wins race: after both finish, the state held for
\* the thread_id is the state written by one of the two calls, and each
\* call returns a well-formed result.
C18_ConcurrentResume ==
    BothResumed =>
      /\ anode # "raised"
      /\ ahist.second.stage = "returned"
      /\ \E i \in DOMAIN savers :
           \/ WrittenBy(savers[i][ahist.thread], ahist.human)
           \/ WrittenBy(savers[i][ahist.thread], ahist.second.human)


\* ------------------------------------- claims: the expert with the tool

\* The current-events expert has run, to its end or to an exception.
ToolsExpertRan == agraph = "expert" /\ anode # "current_events_expert"

\* C19: in one execution of the current-events expert the oracle is invoked
\* at most twice: once initially and, only if that first response requested
\* tool calls, once more after all requested searches have run; tool calls
\* requested by the second response are never executed and no further
\* oracle call follows.
C19_OracleAtMostTwice ==
    LET log == ahist.log
        wanted == Len(SelectSeq(ahist.tool_calls, IsSearch))
    IN ToolsExpertRan =>
         /\ OracleCalls(log) <= 2
         /\ Len(log) > 0 => log[1] = "oracle"
         /\ \A i \in 2..Len(log) :
              log[i] = "oracle" =>
                /\ ahist.tool_calls # <<>>
                /\ i = wanted + 2
                /\ \A j \in 2..(i - 1) : log[j] = "search"
                /\ i = Len(log)
         /\ (anode = "END" /\ ahist.tool_calls # <<>>) =>
                OracleCalls(log) = 2

\* The expert ran to its end, searched once, and its second response asked
\* for another search.
C19_Witness ==
    /\ ToolsExpertRan
    /\ anode = "END"
    /\ ahist.tool_calls = <<"search_for_information">>
    /\ ahist.second_tool_calls = <<"search_for_information">>
    /\ ahist.log = <<"oracle", "search", "oracle">>


\* ----------------------------- claims: the graph with the review node

\* The expert the claim type names.
ExpertNamed(claim_type) ==
    CASE claim_type = "technical" -> "technical_expert"
      [] claim_type = "historical" -> "historical_expert"
      [] claim_type = "current_event" -> "current_events_expert"
      [] OTHER -> "general_expert"

\* The order in which the nodes of a run are to execute, given the state.
NodeOrder ==
    <<"router", ExpertNamed(astate.claim_type), "uncertainty_detector">> \o
    (IF astate.needs_human_review THEN <<"human_review">> ELSE <<>>) \o
    <<"format_output">>

\* The run came to END without an exception.
RanToEnd ==
    /\ agraph = "hitl"
    /\ anode \in {"END", "returned"}
    /\ ahist.raised_in = NoStr

\* C20: in every run of the full human-in-the-loop graph the nodes execute
\* one at a time in the order router, the one expert named by claim_type,
\* uncertainty_detector, human_review only when needs_human_review is true,
\* format_output, END; no node executes twice and every routing label
\* produced after the router is the name of a registered edge target.  A
\* run that an exception ends has executed a prefix of that order.
C20_NodeOrder ==
    agraph = "hitl" =>
      /\ Len(ahist.trace) <= Len(NodeOrder)
      /\ \A i \in DOMAIN ahist.trace : ahist.trace[i] = NodeOrder[i]
      /\ \A i, j \in DOMAIN ahist.trace :
           i # j => ahist.trace[i] # ahist.trace[j]
      /\ RanToEnd => ahist.trace = NodeOrder
      /\ (anode \notin {"END", "returned", "raised"}) =>
           /\ Len(ahist.trace) < Len(NodeOrder)
           /\ anode = NodeOrder[Len(ahist.trace) + 1]
      /\ Len(ahist.labels) <= 2
      /\ Len(ahist.labels) >= 1 => ahist.labels[1] \in RegisteredExperts
      /\ Len(ahist.labels) >= 2 =>
           ahist.labels[2] \in DOMAIN UncertaintyEdges

\* A run that went through human_review to END.
C20_Witness ==
    /\ RanToEnd
    /\ anode = "returned"
    /\ ahist.trace = <<"router", "current_events_expert",
                       "uncertainty_detector", "human_review",
                       "format_output">>
    /\ ahist.labels = <<"current_event_expert", "human_review">>


\* ------------------------------------- claims: the search-capable graph

\* initial_check has run and its edge was chosen.
InitialChecked == tnode # "idle" /\ thist.after_initial # NoStr

\* C21: after initial_check the run goes to generate_queries exactly when
\* the initial confidence is below confidence_threshold or the initial
\* check raised an error, and otherwise goes to format_output without
\* constructing or calling the search tool; a confidence equal to the
\* threshold does not trigger the search.
C21_SearchRouting ==
    LET below == /\ tstate.initial_confidence # NoInt
                 /\ tstate.initial_confidence < tstate.confidence_threshold
        searches == below \/ tstate.error # NoStr
    IN  InitialChecked =>
          /\ thist.after_initial =
                (IF searches THEN "generate_queries" ELSE "format_output")
          /\ ~searches =>
                /\ thist.tools_built = 0
                /\ thist.searched = <<>>
                /\ ~tstate.used_search
                /\ tnode \in {"format_output", "END"}
          /\ tstate.initial_confidence = tstate.confidence_threshold =>
                ~searches

\* A run whose initial confidence equals the threshold came to its end.
C21_Witness ==
    /\ InitialChecked
    /\ tstate.initial_confidence = tstate.confidence_threshold
    /\ thist.result.present
    /\ ~thist.result.used_search


\* search_web_node has run.
Searched == tnode # "idle" /\ tstate.used_search

\* C27: search_multiple calls the search once per query and returns one
\* result record per query, in query order; a failing search is recorded
\* in its own record (success false, error set, results null) and does not
\* stop the remaining queries; search_web_node lists as sources_used only
\* the queries that succeeded with non-empty results.
C27_SearchMultiple ==
    LET queries == tstate.search_queries
        results == tstate.search_results
    IN  Searched =>
          /\ thist.searched = queries
          /\ Len(results) = Len(queries)
          /\ \A i \in DOMAIN results :
               /\ results[i].query = queries[i]
               /\ ~results[i].success =>
                     results[i].error # NoStr /\ results[i].results = NoText
          /\ \A k \in DOMAIN tstate.sources_used :
               \E i \in DOMAIN results :
                  /\ results[i].query = tstate.sources_used[k]
                  /\ results[i].success
                  /\ results[i].results # NoText
                  /\ results[i].results # <<>>

\* The first search failed, the second returned an empty string and the
\* third was still made and found something.
C27_Witness ==
    /\ Searched
    /\ Len(tstate.search_results) = 3
    /\ ~tstate.search_results[1].success
    /\ tstate.search_results[2].success
    /\ tstate.search_results[2].results = <<>>
    /\ tstate.sources_used = <<tstate.search_queries[3]>>

\* analyze_evidence_node has run.
Analyzed ==
    Searched /\ tnode \in {"revise_verdict", "format_output", "END"}

\* C28: analyze_evidence_node sets evidence_supports_claim to true exactly
\* when the oracle's assessment is SUPPORTS, to false exactly when it is
\* REFUTES, and to null when it is INCONCLUSIVE, when the oracle call
\* fails, or when no facts were extracted, in which case the oracle is not
\* called at all.
C28_EvidenceMapping ==
    Analyzed =>
      IF tstate.extracted_facts = <<>>
      THEN ~thist.analysis.present /\ tstate.evidence_supports_claim = NoStr
      ELSE /\ thist.analysis.present
           /\ tstate.evidence_supports_claim =
                (IF thist.analysis.out.raises THEN NoStr
                 ELSE IF thist.analysis.out.assessment
                           \in {"SUPPORTS", "supports"} THEN "true"
                 ELSE IF thist.analysis.out.assessment = "REFUTES" THEN "false"
                 ELSE NoStr)


\* -------------------------------------- claims: the shared memory

\* Every call of store_claim that began has returned.
StoreCallsDone ==
    \A t \in 1..MaxStoreCalls : store_calls[t].pc \in {"idle", "done"}

\* C22: after any interleaving of concurrent store_claim calls
\* MEMORY_STORE["claims"] holds exactly one record per call, and every
\* index stored under an entity in MEMORY_STORE["entities"] is a valid
\* position in the claims list whose record lists that entity.
C22_MemoryConsistent ==
    StoreCallsDone =>
      /\ Len(MEMORY_STORE.claims) =
            Cardinality({t \in 1..MaxStoreCalls : store_calls[t].pc = "done"})
      /\ \A en \in Entities :
           \A k \in DOMAIN MEMORY_STORE.entities[en] :
              LET idx == MEMORY_STORE.entities[en][k]
              IN  /\ idx >= 0
                  /\ idx < Len(MEMORY_STORE.claims)
                  /\ \E j \in DOMAIN MEMORY_STORE.claims[idx + 1].entities :
                        MEMORY_STORE.claims[idx + 1].entities[j] = en


\* ---------------------------------- claims: the graph with the skip flag

\* human_review is running or has run.
HumanReviewRan ==
    \/ anode = "human_review"
    \/ \E i \in DOMAIN ahist.trace : ahist.trace[i] = "human_review"

\* C23: in the flag-based graph of m5_human_in_loop_v2.py, when
\* skip_human_review is true the human_review node never executes and the
\* returned result has human_reviewed = false, whatever verdict and
\* confidence the experts produced (confidence below 50 and UNCERTAIN
\* included).
C23_SkipNeverReviews ==
    (agraph = "v2" /\ astate.skip_human_review) =>
       /\ ~HumanReviewRan
       /\ anode = "returned" => aret.human_reviewed = FALSE

\* A skipped run returned a result for a verdict of UNCERTAIN at a
\* confidence below 50, and human_review did not run.
C23_Witness ==
    /\ agraph = "v2"
    /\ astate.skip_human_review
    /\ anode = "returned"
    /\ astate.verdict = "UNCERTAIN"
    /\ TruthyInt(astate.confidence) /\ astate.confidence < 50
    /\ aret.human_reviewed = FALSE
    /\ ~HumanReviewRan


\* ------------------------------ claims: resuming from the checkpoint

\* How many times the nodes of `names` appear in the trace of the run.
Executions(names) ==
    Cardinality({i \in DOMAIN ahist.trace : ahist.trace[i] \in names})
ExpertNodes ==
    {"technical_expert", "historical_expert", "current_events_expert",
     "general_expert"}

\* C24: resume_after_human_input continues from the checkpointed
\* interrupt point: after the resume the router and the expert have not
\* been executed again, the resumed run goes on from the checkpoint written
\* before human_review, and no node that runs after the human's values
\* were merged overwrites them before format_output builds the result.
C24_ResumeFromCheckpoint ==
    ResumedInterrupted =>
      /\ Executions({"router"}) = 1
      /\ Executions(ExpertNodes) = 1
      /\ anode \in {"human_review", "check_needs_review", "format_output",
                    "END", "returned"}
      /\ astate.verdict = ahist.human.verdict
      /\ astate.confidence = ahist.human.confidence
      /\ astate.reasoning = <<"Human review:">> \o ahist.human.reasoning


\* ------------------------------------- claims: the retry counter

\* C25: in the baseline graph retry_count changes only when a detection
\* attempt in detect_bs_node fails, and then by exactly +1; retry_node
\* returns an empty update and leaves every state field unchanged, and
\* format_output_node never changes retry_count.
C25_RetryCountFrame ==
    [][/\ state'.retry_count # state.retry_count =>
             /\ node = "detect"
             /\ hist'.fails = hist.fails + 1
             /\ state'.retry_count = state.retry_count + 1
       /\ hist'.retry_runs # hist.retry_runs => state' = state
       /\ hist'.format_runs # hist.format_runs =>
             state'.retry_count = state.retry_count]_vars

\* A run in which a detection failed and was counted, retry_node ran and
\* format_output_node ran.
C25_Witness ==
    /\ entry = "check_claim_with_graph"
    /\ state.retry_count >= 1
    /\ hist.retry_runs >= 1
    /\ hist.format_runs = 1

\* C26: the backoff is exponential: the n-th execution of retry_node
\* within a run sleeps 2^(n-1) seconds (1, 2, 4, ...), every sleep is a
\* whole number of seconds of at least 1, and retry_node executes at most
\* max_retries times in a run.  (hist.waits counts half seconds.)
C26_Backoff ==
    entry = "check_claim_with_graph" =>
      /\ \A n \in DOMAIN hist.waits :
            /\ hist.waits[n] = 2 * 2 ^ (n - 1)
            /\ hist.waits[n] % 2 = 0
            /\ hist.waits[n] >= 2
      /\ hist.retry_runs <= state.max_retries


\* ------------------------------ claims: what counts as human-reviewed

C30_FormatFixedPoint ==
    /\ thist.merged.present =>
          /\ ~thist.merged.raised
          /\ thist.merged.final_verdict = tstate.final_verdict
          /\ thist.merged.final_confidence = tstate.final_confidence
          /\ thist.merged.final_reasoning = tstate.final_reasoning
    /\ (entry = "format_output_node" /\ Len(hist.updates) = FormatCalls) =>
          /\ hist.updates[2] = hist.updates[1]
          /\ hist.updates[1].present => state.result = hist.updates[1].result

====
